---- MODULE Spec2Model ----
(***************************************************************************)
(* The NNTP protocol engine of go-nntp (package nntpserver) as a state      *)
(* machine: one connection driven by Server.Process, its session record,   *)
(* the command handlers and the Backend interface they call.               *)
(*                                                                         *)
(* A request line is a command token and a sequence of argument tokens     *)
(* (what strings.Split(l, " ") yields).  Argument tokens are sequences of   *)
(* one-character strings, so that parseRange can split and parse them.     *)
(* The backend is an interface: every call's result is an input, drawn     *)
(* from a small set and recorded in the request's call log.                *)
(* `lines` are the lines the engine writes to the connection; failures of  *)
(* the transport's write side are not modelled.                            *)
(*                                                                         *)
(* The demo backend (couchBackend) has a specification of its own, with    *)
(* its group cache, the Group objects the cache points to, the store, and  *)
(* the Post calls in flight; the engine's specifications leave it idle.    *)
(* Its cache is also specified with the GetGroup and ListGroups calls of   *)
(* concurrent connections, step by step, and the body reader it hands out  *)
(* (lazyOpener) with the loop that drains it.                              *)
(***************************************************************************)
EXTENDS Integers, Sequences, FiniteSets, TLC

VARIABLES status, sess, last, cb, posts, gets, lazy

vars == <<status, sess, last, cb, posts, gets, lazy>>

\* ------------------------------------------------------------------ bounds

\* Largest article count of a group snapshot the backend hands out.
MaxCount == 1

\* Largest number of articles one GetArticles call returns.
MaxArts == 2

\* The most fields, separated by "-", of a range string given to parseRange.
MaxFields == 2

\* The most headers of an article given to sendHeaders.
MaxHeaders == 3

\* The connections the server accepts.
MaxConns == 2

\* The Post calls of the demo backend that run concurrently.
MaxPosts == 2

\* The fills of the demo backend's group cache.
MaxFills == 2

\* math.MaxInt64, scaled to the integer width of the model checker.
MaxInt64 == 2147483647

\* ------------------------------------------------------------------ errors

NNTPError(code, msg) == [kind |-> "nntp", code |-> code, msg |-> msg]

\* A nil error.
Nil == [kind |-> "nil", code |-> 0, msg |-> ""]

\* io.EOF
EOF == [kind |-> "eof", code |-> 0, msg |-> "EOF"]

\* Any error value that is neither io.EOF nor a *NNTPError.
ErrOther == [kind |-> "other", code |-> 0, msg |-> "backend failure"]

ErrNoSuchGroup == NNTPError(411, "No such newsgroup")

ErrNoGroupSelected == NNTPError(412, "No newsgroup selected")

ErrInvalidMessageID == NNTPError(430, "No article with that message-id")

ErrInvalidArticleNumber == NNTPError(423, "No article with that number")

ErrNoCurrentArticle == NNTPError(420, "Current article number is invalid")

ErrUnknownCommand == NNTPError(500, "Unknown command")

ErrSyntax == NNTPError(501, "not supported, or syntax error")

ErrPostingNotPermitted == NNTPError(440, "Posting not permitted")

ErrPostingFailed == NNTPError(441, "posting failed")

ErrNotWanted == NNTPError(435, "Article not wanted")

ErrAuthRequired == NNTPError(450, "authorization required")

ErrAuthRejected == NNTPError(452, "authorization rejected")

ErrNotAuthenticated == NNTPError(480, "authentication required")

\* ------------------------------------------------------------------- lines

\* A line written to the connection: a status line "code ...", a data line of
\* a dot-terminated block, or the terminating "." line.  nums are the decimal
\* fields, tok a group-name token, strs the textual fields.
Line(kind, code, nums, tok, strs) ==
    [kind |-> kind, code |-> code, nums |-> nums, tok |-> tok, strs |-> strs]

StatusLine(code, text) == Line("status", code, <<>>, <<>>, <<text>>)

DataLine(nums, tok, strs) == Line("data", 0, nums, tok, strs)

\* What DotWriter.Close emits.
DotLine == Line("dot", 0, <<>>, <<>>, <<>>)

\* NNTPError.Error(): fmt.Sprintf("%d %s", e.Code, e.Msg)
ErrorText(e) == StatusLine(e.code, e.msg)

\* ----------------------------------------------------------------- strings

Digits == <<"0", "1", "2", "3", "4", "5", "6", "7", "8", "9">>

IsDigit(c) == \E i \in 1..10 : Digits[i] = c

DigitVal(c) == (CHOOSE i \in 1..10 : Digits[i] = c) - 1

\* strings.Split(s, sep) for a one-character separator and a non-empty s.
RECURSIVE SplitFrom(_, _, _, _)
SplitFrom(s, sep, i, cur) ==
    IF i > Len(s) THEN <<cur>>
    ELSE IF s[i] = sep THEN <<cur>> \o SplitFrom(s, sep, i + 1, <<>>)
    ELSE SplitFrom(s, sep, i + 1, Append(cur, s[i]))

Split(s, sep) == SplitFrom(s, sep, 1, <<>>)

\* The digits of s accumulated base 10; on overflow the value saturates at
\* MaxInt64 and the range error is reported, as strconv.ParseInt does.
RECURSIVE Accumulate(_, _, _)
Accumulate(s, i, v) ==
    IF i > Len(s) THEN [v |-> v, ok |-> TRUE]
    ELSE IF v > (MaxInt64 - DigitVal(s[i])) \div 10
         THEN [v |-> MaxInt64, ok |-> FALSE]
    ELSE Accumulate(s, i + 1, v * 10 + DigitVal(s[i]))

\* strconv.ParseInt(s, 10, 64): an optional sign, then one or more digits.
\* A syntax error yields value 0, a range error the nearest bound.
ParseInt(s) ==
    LET signed == Len(s) > 0 /\ s[1] \in {"+", "-"}
        body == IF signed THEN Tail(s) ELSE s
    IN  IF Len(body) = 0 \/ \E i \in 1..Len(body) : ~IsDigit(body[i])
        THEN [v |-> 0, ok |-> FALSE]
        ELSE LET a == Accumulate(body, 1, 0)
             IN  IF signed /\ s[1] = "-"
                 THEN [v |-> IF a.ok THEN 0 - a.v ELSE 0 - MaxInt64 - 1, ok |-> a.ok]
                 ELSE a

\* parseRange(spec) as <<low, high>>.
parseRange(spec) ==
    IF spec = <<>> THEN <<0, MaxInt64>>
    ELSE LET parts == Split(spec, "-")
         IN  IF Len(parts) = 1
             THEN LET h == ParseInt(parts[1])
                  IN  <<0, IF h.ok THEN h.v ELSE MaxInt64>>
             ELSE LET l == ParseInt(parts[1])
                      h == ParseInt(parts[2])
                  IN  <<l.v, IF h.ok THEN h.v ELSE MaxInt64>>

\* strings.ToLower, character by character.
UpperCase == <<"A", "B", "C", "D", "E", "F", "G", "H", "I", "J", "K", "L", "M",
               "N", "O", "P", "Q", "R", "S", "T", "U", "V", "W", "X", "Y", "Z">>

LowerCase == <<"a", "b", "c", "d", "e", "f", "g", "h", "i", "j", "k", "l", "m",
               "n", "o", "p", "q", "r", "s", "t", "u", "v", "w", "x", "y", "z">>

LowerChar(c) ==
    IF \E i \in 1..26 : UpperCase[i] = c
    THEN LowerCase[CHOOSE i \in 1..26 : UpperCase[i] = c]
    ELSE c

ToLower(s) == [i \in 1..Len(s) |-> LowerChar(s[i])]

\* ------------------------------------------------------------ data model

\* A nil *nntp.Group.
NoGroup ==
    [nil |-> TRUE, name |-> <<>>, desc |-> "", count |-> 0, low |-> 0,
     high |-> 0, posting |-> ""]

\* An nntp.Group as the backend hands it out.  Count, Low and High take three
\* different values, so that a line built from them shows which is which.
Group(name, c) ==
    [nil |-> FALSE, name |-> name, desc |-> "description", count |-> c,
     low |-> 10 + c, high |-> 20 + c, posting |-> "y"]

GroupNames == {<<"a">>, <<"b">>}

Snapshots(name) == {Group(name, c) : c \in 1..MaxCount}

\* A nil *nntp.Article.
NoArticle == [nil |-> TRUE, hdr |-> <<>>, bytes |-> 0, lines |-> 0]

\* An nntp.Article: Header is a map from canonical header names to value
\* lists; Body is a reader whose outcome is drawn when it is copied.
Article(hdr, bytes, lines) ==
    [nil |-> FALSE, hdr |-> hdr, bytes |-> bytes, lines |-> lines]

Art1 ==
    Article("Subject" :> <<"A">> @@ "From" :> <<"alice">> @@
            "Message-Id" :> <<"<m1>">> @@ "Path" :> <<"host">>, 5, 1)

Art2 ==
    Article("Subject" :> <<"B">> @@ "Newsgroups" :> <<"a">> @@
            "Received" :> <<"r1", "r2">>, 7, 2)

Articles == {Art1, Art2}

\* A NumberedArticle.
Numbered(num, art) == [num |-> num, art |-> art]

NumberedArticles == {Numbered(1, Art1), Numbered(2, Art2)}

\* textproto.MIMEHeader.Get: the first value of the header, or "".
HeaderGet(hdr, k) ==
    IF k \in DOMAIN hdr /\ Len(hdr[k]) > 0 THEN hdr[k][1] ELSE ""

\* nntp.Article.MessageID()
MessageID(article) == HeaderGet(article.hdr, "Message-Id")

\* The session's backends: the server's default, and the one Authenticate
\* may hand back.
DefaultBackend == "B0"

UserBackend == "B1"

NoBackend == "nil"

\* The session record (its server pointer never changes and is left out).
Session(backend, group) == [backend |-> backend, group |-> group]

\* ------------------------------------------------------- backend results

\* What a Backend method returns: the fields a method does not have are at
\* their zero value.
Ret(err, grp, art, arts, groups, flag, be) ==
    [err |-> err, grp |-> grp, art |-> art, arts |-> arts, groups |-> groups,
     flag |-> flag, be |-> be]

RetErr(err) == Ret(err, NoGroup, NoArticle, <<>>, <<>>, FALSE, NoBackend)

\* Errors a Backend method may return besides the one its contract names.
BackendFailures == {ErrOther}

\* GetGroup(name): a group or ErrNoSuchGroup.
GetGroupRets(name) ==
    {Ret(Nil, g, NoArticle, <<>>, <<>>, FALSE, NoBackend) : g \in Snapshots(name)}
    \cup {RetErr(e) : e \in {ErrNoSuchGroup} \cup BackendFailures}

\* GetArticle(group, id): an article, ErrInvalidArticleNumber or
\* ErrInvalidMessageID.
GetArticleRets ==
    {Ret(Nil, NoGroup, a, <<>>, <<>>, FALSE, NoBackend) : a \in Articles}
    \cup {RetErr(e) : e \in {ErrInvalidArticleNumber, ErrInvalidMessageID}
                              \cup BackendFailures}

SeqsUpTo(S, n) == UNION {[1..k -> S] : k \in 0..n}

\* GetArticles(group, from, to): numbered articles in the backend's order.
GetArticlesRets ==
    {Ret(Nil, NoGroup, NoArticle, as, <<>>, FALSE, NoBackend) :
        as \in SeqsUpTo(NumberedArticles, MaxArts)}
    \cup {RetErr(e) : e \in {ErrNoSuchGroup} \cup BackendFailures}

\* ListGroups(max)
ListGroupsRets ==
    {Ret(Nil, NoGroup, NoArticle, <<>>, gs, FALSE, NoBackend) :
        gs \in {<<>>, <<Group(<<"a">>, 1)>>, <<Group(<<"b">>, 1), Group(<<"a">>, 1)>>}}
    \cup {RetErr(e) : e \in BackendFailures}

\* AllowPost() and Authorized()
BoolRets == {Ret(Nil, NoGroup, NoArticle, <<>>, <<>>, f, NoBackend) : f \in BOOLEAN}

\* Post(article)
PostRets == {RetErr(e) : e \in {Nil, ErrPostingFailed, ErrNotWanted} \cup BackendFailures}

\* Authenticate(user, pass): an optional replacement backend, or an error.
AuthenticateRets ==
    {Ret(Nil, NoGroup, NoArticle, <<>>, <<>>, FALSE, b) : b \in {NoBackend, UserBackend}}
    \cup {RetErr(e) : e \in {ErrAuthRejected} \cup BackendFailures}

\* A call of a Backend method as the handlers make it: the receiver, the
\* arguments and the result.
Call(op, be, grp, tok, tok2, lo, hi, ret) ==
    [op |-> op, be |-> be, grp |-> grp, tok |-> tok, tok2 |-> tok2, lo |-> lo,
     hi |-> hi, ret |-> ret]

\* The connection, as the receiver of a logged operation.
Conn == "conn"

\* Operations on the connection, as the handlers that read from it mid-way
\* (POST, IHAVE, AUTHINFO) log them among their calls, so that the order of
\* their writes, their reads and their backend calls is kept.
PrintfLine(line) == [op |-> "PrintfLine", be |-> Conn, line |-> line]

\* c.ReadMIMEHeader() and the error it returned.
ReadMIMEHeader(err) == [op |-> "ReadMIMEHeader", be |-> Conn, err |-> err]

\* c.ReadLine() and the line it returned, cut at its spaces.
ReadLine(parts) == [op |-> "ReadLine", be |-> Conn, parts |-> parts]

\* --------------------------------------------------------------- handlers

\* What a handler leaves behind: the session as it left it, the lines it
\* wrote, the backend calls it made and the error it returned.  A handler
\* that panics returns nothing: its deferred calls have run, and the panic
\* unwinds Process (whose deferred nc.Close() runs) and ends the program.
\* A handler is the set of what it may leave behind, one element for every
\* way its backend calls and its reads of the connection may turn out.
Return(s, lines, calls, err) ==
    [sess |-> s, lines |-> lines, calls |-> calls, err |-> err, panic |-> FALSE]

Panic(s, lines, calls) ==
    [sess |-> s, lines |-> lines, calls |-> calls, err |-> Nil, panic |-> TRUE]

\* The header names of the model in the order sort.Strings gives them.
SortedHeaderNames ==
    <<"Date", "From", "Message-Id", "Newsgroups", "Path", "Received",
      "References", "Subject">>

\* The members of `names` as a sequence, in the order of `universe`.
RECURSIVE Select(_, _, _)
Select(universe, i, names) ==
    IF i > Len(universe) THEN <<>>
    ELSE (IF universe[i] \in names THEN <<universe[i]>> ELSE <<>>)
         \o Select(universe, i + 1, names)

\* sort.Strings(keys)
SortStrings(names) == Select(SortedHeaderNames, 1, names)

\* The lines of the last loop of sendHeaders: every value of every header of
\* newOrder on a line of its own; hdr.v[0] of an empty value list panics.
RECURSIVE EmitHeaders(_, _, _)
EmitHeaders(hdr, newOrder, i) ==
    IF i > Len(newOrder) THEN [lines |-> <<>>, panic |-> FALSE]
    ELSE LET k == newOrder[i]
             v == hdr[k]
         IN  IF Len(v) = 0 THEN [lines |-> <<>>, panic |-> TRUE]
             ELSE LET rest == EmitHeaders(hdr, newOrder, i + 1)
                  IN  [lines |-> [j \in 1..Len(v) |-> DataLine(<<>>, <<>>, <<k, v[j]>>)]
                                 \o rest.lines,
                       panic |-> rest.panic]

\* sendHeaders writing every header in the order of sort.Strings.
sendHeaders_SortedOnly(article) ==
    EmitHeaders(article.hdr, SortStrings(DOMAIN article.hdr), 1)

\* sendHeaders(dw, article): the lines written, and whether it panicked.
sendHeaders(article) ==
    LET order == <<"Subject", "From", "Date", "Message-Id", "References">>
        important == {order[i] : i \in 1..Len(order)}
        keys == SortStrings(DOMAIN article.hdr \ important)
        newOrder == Select(order, 1, DOMAIN article.hdr) \o keys
    IN  EmitHeaders(article.hdr, newOrder, 1)

\* The row handleOver writes for one article.
OverRow(a) ==
    DataLine(<<a.num, a.art.bytes, a.art.lines>>, <<>>,
             <<HeaderGet(a.art.hdr, "Subject"), HeaderGet(a.art.hdr, "From"),
               HeaderGet(a.art.hdr, "Date"), HeaderGet(a.art.hdr, "Message-Id"),
               HeaderGet(a.art.hdr, "References")>>)

\* handleOver, registered for "over" and "xover".
handleOver(args, s) ==
    IF s.group.nil THEN {Return(s, <<>>, <<>>, ErrNoGroupSelected)}
    ELSE IF Len(args) = 0 THEN {Panic(s, <<>>, <<>>)}
    ELSE
    LET r == parseRange(args[1])
        Got(ga) ==
            LET c == Call("GetArticles", s.backend, s.group, <<>>, <<>>, r[1], r[2], ga)
            IN  IF ga.err # Nil THEN Return(s, <<>>, <<c>>, ga.err)
                ELSE Return(s,
                            <<StatusLine(224, "here it comes")>>
                            \o [i \in 1..Len(ga.arts) |-> OverRow(ga.arts[i])]
                            \o <<DotLine>>,
                            <<c>>, Nil)
    IN  {Got(ga) : ga \in GetArticlesRets}

\* handleListOverviewFmt
handleListOverviewFmt(s) ==
    {Return(s,
            <<StatusLine(215, "Order of fields in overview database."),
              DataLine(<<>>, <<>>, <<"Subject:">>), DataLine(<<>>, <<>>, <<"From:">>),
              DataLine(<<>>, <<>>, <<"Date:">>), DataLine(<<>>, <<>>, <<"Message-ID:">>),
              DataLine(<<>>, <<>>, <<"References:">>), DataLine(<<>>, <<>>, <<":bytes">>),
              DataLine(<<>>, <<>>, <<":lines">>), DotLine>>,
            <<>>, Nil)}

tokActive == <<"a", "c", "t", "i", "v", "e">>

tokNewsgroups == <<"n", "e", "w", "s", "g", "r", "o", "u", "p", "s">>

tokOverviewFmt == <<"o", "v", "e", "r", "v", "i", "e", "w", ".", "f", "m", "t">>

\* The lines handleList writes for the groups, by list type.
ListRows(ltype, groups) ==
    IF ltype = tokActive
    THEN [i \in 1..Len(groups) |->
            DataLine(<<groups[i].high, groups[i].low>>, groups[i].name,
                     <<groups[i].posting>>)]
    ELSE IF ltype = tokNewsgroups
    THEN [i \in 1..Len(groups) |-> DataLine(<<>>, groups[i].name, <<groups[i].desc>>)]
    ELSE <<>>

\* handleList
handleList(args, s) ==
    LET ltype == IF Len(args) > 0 THEN ToLower(args[1]) ELSE tokActive
        Got(lg) ==
            LET c == Call("ListGroups", s.backend, NoGroup, <<>>, <<>>, -1, 0, lg)
            IN  IF lg.err # Nil THEN Return(s, <<>>, <<c>>, lg.err)
                ELSE Return(s,
                            <<StatusLine(215, "list of newsgroups follows")>>
                            \o ListRows(ltype, lg.groups) \o <<DotLine>>,
                            <<c>>, Nil)
    IN  IF ltype = tokOverviewFmt THEN handleListOverviewFmt(s)
        ELSE {Got(lg) : lg \in ListGroupsRets}

\* handleNewGroups answering with the code of NEWNEWS.
handleNewGroups_Code230(args, s) ==
    {Return(s, <<StatusLine(230, "list of newsgroups follows"), DotLine>>, <<>>, Nil)}

handleNewGroups(args, s) ==
    {Return(s, <<StatusLine(231, "list of newsgroups follows"), DotLine>>, <<>>, Nil)}

handleDefault(args, s) == {Return(s, <<>>, <<>>, ErrUnknownCommand)}

handleQuit(args, s) == {Return(s, <<StatusLine(205, "bye")>>, <<>>, EOF)}

\* The "211 count low high name" line of handleGroup and, with text, of
\* handleListGroup.
GroupLine(group, strs) ==
    Line("status", 211, <<group.count, group.low, group.high>>, group.name, strs)

\* handleGroup assigning s.group before it looks at the error of GetGroup.
handleGroup_BindBeforeErrorCheck(args, s) ==
    IF Len(args) < 1 THEN {Return(s, <<>>, <<>>, ErrNoSuchGroup)}
    ELSE
    LET Got(gg) ==
            LET c == Call("GetGroup", s.backend, NoGroup, args[1], <<>>, 0, 0, gg)
            IN  IF gg.err # Nil
                THEN Return([s EXCEPT !.group = gg.grp], <<>>, <<c>>, gg.err)
                ELSE Return([s EXCEPT !.group = gg.grp],
                            <<GroupLine(gg.grp, <<>>)>>, <<c>>, Nil)
    IN  {Got(gg) : gg \in GetGroupRets(args[1])}

\* handleGroup
handleGroup(args, s) ==
    IF Len(args) < 1 THEN {Return(s, <<>>, <<>>, ErrNoSuchGroup)}
    ELSE
    LET Got(gg) ==
            LET c == Call("GetGroup", s.backend, NoGroup, args[1], <<>>, 0, 0, gg)
            IN  IF gg.err # Nil THEN Return(s, <<>>, <<c>>, gg.err)
                ELSE Return([s EXCEPT !.group = gg.grp],
                            <<GroupLine(gg.grp, <<>>)>>, <<c>>, Nil)
    IN  {Got(gg) : gg \in GetGroupRets(args[1])}

\* The default range of handleListGroup.
tokDefaultRange == <<"1", "-">>

\* The end of handleListGroup, from its call of GetArticles: s is the session
\* by then, group the group the 211 line is built from.
ListArticles(s, group, from, to, calls) ==
    LET Got(ga) ==
            LET c == Call("GetArticles", s.backend, s.group, <<>>, <<>>, from, to, ga)
            IN  IF ga.err # Nil THEN Return(s, <<>>, Append(calls, c), ga.err)
                ELSE Return(s,
                            <<GroupLine(group, <<"list follows">>)>>
                            \o [i \in 1..Len(ga.arts) |->
                                  DataLine(<<ga.arts[i].num>>, <<>>, <<>>)]
                            \o <<DotLine>>,
                            Append(calls, c), Nil)
    IN  {Got(ga) : ga \in GetArticlesRets}

\* handleListGroup without the assignment s.group = group: the group fetched
\* is shown in the 211 line, the session keeps the one it had.
handleListGroup_KeepSelection(args, s) ==
    IF Len(args) < 1 /\ s.group.nil THEN {Return(s, <<>>, <<>>, ErrNoGroupSelected)}
    ELSE
    LET group0 == IF Len(args) < 1 THEN s.group ELSE NoGroup
        idxRange == IF Len(args) > 1 THEN args[2] ELSE tokDefaultRange
        r == parseRange(idxRange)
        from == r[1]
        to == r[2]
        Fetched(gg) ==
            LET c == Call("GetGroup", s.backend, NoGroup, args[1], <<>>, 0, 0, gg)
            IN  IF gg.err # Nil THEN {Return(s, <<>>, <<c>>, gg.err)}
                ELSE ListArticles(s, gg.grp, from, to, <<c>>)
    IN  IF from = 0 THEN {Return(s, <<>>, <<>>, ErrSyntax)}
        ELSE IF from < 1 \/ from > to THEN {Return(s, <<>>, <<>>, ErrSyntax)}
        ELSE IF group0.nil THEN UNION {Fetched(gg) : gg \in GetGroupRets(args[1])}
        ELSE ListArticles(s, group0, from, to, <<>>)

\* handleListGroup fetching the group before it validates the range.
handleListGroup_LookupBeforeRange(args, s) ==
    IF Len(args) < 1 /\ s.group.nil THEN {Return(s, <<>>, <<>>, ErrNoGroupSelected)}
    ELSE
    LET group0 == IF Len(args) < 1 THEN s.group ELSE NoGroup
        idxRange == IF Len(args) > 1 THEN args[2] ELSE tokDefaultRange
        r == parseRange(idxRange)
        from == r[1]
        to == r[2]
        Checked(s1, group, calls) ==
            IF from = 0 THEN {Return(s1, <<>>, calls, ErrSyntax)}
            ELSE IF from < 1 \/ from > to THEN {Return(s1, <<>>, calls, ErrSyntax)}
            ELSE ListArticles(s1, group, from, to, calls)
        Fetched(gg) ==
            LET c == Call("GetGroup", s.backend, NoGroup, args[1], <<>>, 0, 0, gg)
            IN  IF gg.err # Nil THEN {Return(s, <<>>, <<c>>, gg.err)}
                ELSE Checked([s EXCEPT !.group = gg.grp], gg.grp, <<c>>)
    IN  IF group0.nil THEN UNION {Fetched(gg) : gg \in GetGroupRets(args[1])}
        ELSE Checked(s, group0, <<>>)

\* handleListGroup
handleListGroup(args, s) ==
    IF Len(args) < 1 /\ s.group.nil THEN {Return(s, <<>>, <<>>, ErrNoGroupSelected)}
    ELSE
    LET group0 == IF Len(args) < 1 THEN s.group ELSE NoGroup
        idxRange == IF Len(args) > 1 THEN args[2] ELSE tokDefaultRange
        r == parseRange(idxRange)
        from == r[1]
        to == r[2]
        Fetched(gg) ==
            LET c == Call("GetGroup", s.backend, NoGroup, args[1], <<>>, 0, 0, gg)
            IN  IF gg.err # Nil THEN {Return(s, <<>>, <<c>>, gg.err)}
                ELSE ListArticles([s EXCEPT !.group = gg.grp], gg.grp, from, to, <<c>>)
    IN  IF from = 0 THEN {Return(s, <<>>, <<>>, ErrSyntax)}
        ELSE IF from < 1 \/ from > to THEN {Return(s, <<>>, <<>>, ErrSyntax)}
        ELSE IF group0.nil THEN UNION {Fetched(gg) : gg \in GetGroupRets(args[1])}
        ELSE ListArticles(s, group0, from, to, <<>>)

\* getArticle with its two checks in the other order.
getArticle_IdBeforeGroup(args, s) ==
    IF Len(args) = 0
    THEN {[art |-> NoArticle, err |-> ErrNoCurrentArticle, calls |-> <<>>]}
    ELSE IF s.group.nil
    THEN {[art |-> NoArticle, err |-> ErrNoGroupSelected, calls |-> <<>>]}
    ELSE {[art |-> ga.art, err |-> ga.err,
           calls |-> <<Call("GetArticle", s.backend, s.group, args[1], <<>>, 0, 0, ga)>>] :
            ga \in GetArticleRets}

\* session.getArticle: the article or the error, and the calls made.
getArticle(args, s) ==
    IF s.group.nil
    THEN {[art |-> NoArticle, err |-> ErrNoGroupSelected, calls |-> <<>>]}
    ELSE IF Len(args) = 0
    THEN {[art |-> NoArticle, err |-> ErrNoCurrentArticle, calls |-> <<>>]}
    ELSE {[art |-> ga.art, err |-> ga.err,
           calls |-> <<Call("GetArticle", s.backend, s.group, args[1], <<>>, 0, 0, ga)>>] :
            ga \in GetArticleRets}

\* The "22x 1 message-id" line of handleHead, handleBody and handleArticle.
ArticleLine(code, article) == Line("status", code, <<1>>, <<>>, <<MessageID(article)>>)

\* handleHead: the deferred dw.Close() writes the "." line on every way out.
handleHead(args, s) ==
    LET Got(g) ==
            IF g.err # Nil THEN Return(s, <<>>, g.calls, g.err)
            ELSE LET h == sendHeaders(g.art)
                     lines == <<ArticleLine(221, g.art)>> \o h.lines \o <<DotLine>>
                 IN  IF h.panic THEN Panic(s, lines, g.calls)
                     ELSE Return(s, lines, g.calls, Nil)
    IN  {Got(g) : g \in getArticle(args, s)}

\* The lines io.Copy(dw, article.Body) wrote when it had copied n lines.
BodyLines(n) == [i \in 1..n |-> DataLine(<<i>>, <<>>, <<"body">>)]

\* What io.Copy(dw, article.Body) may yield: the lines copied before the
\* reader ended (err nil) or failed.  The reader is the backend's, and so is
\* the error it fails with.
BodyRets == [n : 0..1, err : {Nil, ErrOther, ErrInvalidMessageID}]

\* handleBody
handleBody(args, s) ==
    LET Got(g) ==
            IF g.err # Nil THEN {Return(s, <<>>, g.calls, g.err)}
            ELSE {Return(s,
                         <<ArticleLine(222, g.art)>> \o BodyLines(b.n) \o <<DotLine>>,
                         g.calls, b.err) : b \in BodyRets}
    IN  UNION {Got(g) : g \in getArticle(args, s)}

\* handleArticle closing the block only on its successful way out, as it
\* would without the deferred dw.Close().
handleArticle_CloseOnSuccessOnly(args, s) ==
    LET Got(g) ==
            IF g.err # Nil THEN {Return(s, <<>>, g.calls, g.err)}
            ELSE LET h == sendHeaders(g.art)
                     head == <<ArticleLine(220, g.art)>> \o h.lines
                 IN  IF h.panic THEN {Panic(s, head, g.calls)}
                     ELSE {Return(s,
                                  head \o <<DataLine(<<>>, <<>>, <<"">>)>>
                                  \o BodyLines(b.n)
                                  \o (IF b.err = Nil THEN <<DotLine>> ELSE <<>>),
                                  g.calls, b.err) : b \in BodyRets}
    IN  UNION {Got(g) : g \in getArticle(args, s)}

\* handleArticle
handleArticle(args, s) ==
    LET Got(g) ==
            IF g.err # Nil THEN {Return(s, <<>>, g.calls, g.err)}
            ELSE LET h == sendHeaders(g.art)
                     head == <<ArticleLine(220, g.art)>> \o h.lines
                 IN  IF h.panic THEN {Panic(s, head \o <<DotLine>>, g.calls)}
                     ELSE {Return(s,
                                  head \o <<DataLine(<<>>, <<>>, <<"">>)>>
                                  \o BodyLines(b.n) \o <<DotLine>>,
                                  g.calls, b.err) : b \in BodyRets}
    IN  UNION {Got(g) : g \in getArticle(args, s)}

\* The end of handlePost and handleIHave, from ReadMIMEHeader: intro is the
\* line written before it, code the code of the line written after Post.
ReadAndPost(s, intro, code, calls) ==
    LET ack == StatusLine(code, "article received OK")
        sofar == calls \o <<PrintfLine(intro)>>
        Posted(post) ==
            LET c == Call("Post", s.backend, NoGroup, <<>>, <<>>, 0, 0, post)
                log == sofar \o <<ReadMIMEHeader(Nil), c>>
            IN  IF post.err # Nil THEN Return(s, <<intro>>, log, post.err)
                ELSE Return(s, <<intro, ack>>, Append(log, PrintfLine(ack)), Nil)
    IN  {Return(s, <<intro>>, Append(sofar, ReadMIMEHeader(ErrOther)), ErrPostingFailed)}
        \cup {Posted(post) : post \in PostRets}

\* handlePost acknowledging the article before it hands it to the backend.
handlePost_AckBeforePost(args, s) ==
    LET go == StatusLine(340, "Go ahead")
        ack == StatusLine(240, "article received OK")
        Posted(ca, post) ==
            LET c == Call("Post", s.backend, NoGroup, <<>>, <<>>, 0, 0, post)
            IN  Return(s, <<go, ack>>,
                       <<ca, PrintfLine(go), ReadMIMEHeader(Nil), PrintfLine(ack), c>>,
                       post.err)
        Allowed(ap) ==
            LET c == Call("AllowPost", s.backend, NoGroup, <<>>, <<>>, 0, 0, ap)
            IN  IF ~ap.flag THEN {Return(s, <<>>, <<c>>, ErrPostingNotPermitted)}
                ELSE {Return(s, <<go>>, <<c, PrintfLine(go), ReadMIMEHeader(ErrOther)>>,
                             ErrPostingFailed)}
                     \cup {Posted(c, post) : post \in PostRets}
    IN  UNION {Allowed(ap) : ap \in BoolRets}

\* handlePost
handlePost(args, s) ==
    LET Allowed(ap) ==
            LET c == Call("AllowPost", s.backend, NoGroup, <<>>, <<>>, 0, 0, ap)
            IN  IF ~ap.flag THEN {Return(s, <<>>, <<c>>, ErrPostingNotPermitted)}
                ELSE ReadAndPost(s, StatusLine(340, "Go ahead"), 240, <<c>>)
    IN  UNION {Allowed(ap) : ap \in BoolRets}

\* handleIHave taking the article whether or not the backend has it.
handleIHave_TakeAgain(args, s) ==
    LET Have(ca, ga) ==
            LET c == Call("GetArticle", s.backend, NoGroup, args[1], <<>>, 0, 0, ga)
            IN  ReadAndPost(s, StatusLine(335, "send it"), 235, <<ca, c>>)
        Allowed(ap) ==
            LET c == Call("AllowPost", s.backend, NoGroup, <<>>, <<>>, 0, 0, ap)
            IN  IF ~ap.flag THEN {Return(s, <<>>, <<c>>, ErrNotWanted)}
                ELSE IF Len(args) = 0 THEN {Panic(s, <<>>, <<c>>)}
                ELSE UNION {Have(c, ga) : ga \in GetArticleRets}
    IN  UNION {Allowed(ap) : ap \in BoolRets}

\* handleIHave: GetArticle is called with a nil group.
handleIHave(args, s) ==
    LET Have(ca, ga) ==
            LET c == Call("GetArticle", s.backend, NoGroup, args[1], <<>>, 0, 0, ga)
            IN  IF ~ga.art.nil THEN {Return(s, <<>>, <<ca, c>>, ErrNotWanted)}
                ELSE ReadAndPost(s, StatusLine(335, "send it"), 235, <<ca, c>>)
        Allowed(ap) ==
            LET c == Call("AllowPost", s.backend, NoGroup, <<>>, <<>>, 0, 0, ap)
            IN  IF ~ap.flag THEN {Return(s, <<>>, <<c>>, ErrNotWanted)}
                ELSE IF Len(args) = 0 THEN {Panic(s, <<>>, <<c>>)}
                ELSE UNION {Have(c, ga) : ga \in GetArticleRets}
    IN  UNION {Allowed(ap) : ap \in BoolRets}

\* handleCap listing POST and IHAVE whatever AllowPost says.
handleCap_AlwaysPost(args, s) ==
    LET cap(text) == DataLine(<<>>, <<>>, <<text>>)
        Allowed(ap) ==
            Return(s,
                   <<StatusLine(101, "Capability list:"), cap("VERSION 2"), cap("READER"),
                     cap("POST"), cap("IHAVE"), cap("OVER"), cap("XOVER"),
                     cap("LIST ACTIVE NEWSGROUPS OVERVIEW.FMT"), DotLine>>,
                   <<Call("AllowPost", s.backend, NoGroup, <<>>, <<>>, 0, 0, ap)>>, Nil)
    IN  {Allowed(ap) : ap \in BoolRets}

\* handleCap
handleCap(args, s) ==
    LET cap(text) == DataLine(<<>>, <<>>, <<text>>)
        Allowed(ap) ==
            Return(s,
                   <<StatusLine(101, "Capability list:"), cap("VERSION 2"), cap("READER")>>
                   \o (IF ap.flag THEN <<cap("POST"), cap("IHAVE")>> ELSE <<>>)
                   \o <<cap("OVER"), cap("XOVER"),
                        cap("LIST ACTIVE NEWSGROUPS OVERVIEW.FMT"), DotLine>>,
                   <<Call("AllowPost", s.backend, NoGroup, <<>>, <<>>, 0, 0, ap)>>, Nil)
    IN  {Allowed(ap) : ap \in BoolRets}

\* handleMode
handleMode(args, s) ==
    LET Allowed(ap) ==
            Return(s,
                   <<IF ap.flag THEN StatusLine(200, "Posting allowed")
                     ELSE StatusLine(201, "Posting prohibited")>>,
                   <<Call("AllowPost", s.backend, NoGroup, <<>>, <<>>, 0, 0, ap)>>, Nil)
    IN  {Allowed(ap) : ap \in BoolRets}

tokUser == <<"u", "s", "e", "r">>

tokPass == <<"p", "a", "s", "s">>

tokAuthinfo == <<"a", "u", "t", "h", "i", "n", "f", "o">>

\* The follow-up line of AUTHINFO USER as strings.SplitN(a, " ", 3) cuts it:
\* the password line in two spellings, lines that lack tokens, another
\* command, and the one empty token of a failed read.
FollowUps ==
    {<<tokAuthinfo, tokPass, <<"p", "w">>>>,
     <<<<"A", "U", "T", "H", "I", "N", "F", "O">>, <<"P", "A", "S", "S">>, <<"p", "w">>>>,
     <<tokAuthinfo>>, <<tokAuthinfo, tokPass>>, <<tokAuthinfo, tokUser, <<"x">>>>,
     <<<<"q", "u", "i", "t">>>>, <<<<>>>>}

\* handleAuthInfo assigning s.backend whatever Authenticate returned, nil
\* included.
handleAuthInfo_SwapAlways(args, s) ==
    IF Len(args) < 2 THEN {Return(s, <<>>, <<>>, ErrSyntax)}
    ELSE IF ToLower(args[1]) # tokUser THEN {Return(s, <<>>, <<>>, ErrSyntax)}
    ELSE
    LET ok == StatusLine(250, "authenticated")
        cont == StatusLine(350, "Continue")
        Authenticated(log, parts, au) ==
            LET c == Call("Authenticate", s.backend, NoGroup, args[2], parts[3], 0, 0, au)
            IN  IF au.err # Nil THEN Return(s, <<cont>>, Append(log, c), au.err)
                ELSE Return([s EXCEPT !.backend = au.be],
                            <<cont, ok>>, log \o <<c, PrintfLine(ok)>>, Nil)
        Continued(cz, parts) ==
            LET log == <<cz, PrintfLine(cont), ReadLine(parts)>>
            IN  IF ToLower(parts[1]) # tokAuthinfo THEN {Return(s, <<cont>>, log, ErrSyntax)}
                ELSE IF Len(parts) < 2 THEN {Panic(s, <<cont>>, log)}
                ELSE IF ToLower(parts[2]) # tokPass THEN {Return(s, <<cont>>, log, ErrSyntax)}
                ELSE IF Len(parts) < 3 THEN {Panic(s, <<cont>>, log)}
                ELSE {Authenticated(log, parts, au) : au \in AuthenticateRets}
        Asked(az) ==
            LET c == Call("Authorized", s.backend, NoGroup, <<>>, <<>>, 0, 0, az)
            IN  IF az.flag THEN {Return(s, <<ok>>, <<c, PrintfLine(ok)>>, Nil)}
                ELSE UNION {Continued(c, parts) : parts \in FollowUps}
    IN  UNION {Asked(az) : az \in BoolRets}

\* handleAuthInfo
handleAuthInfo(args, s) ==
    IF Len(args) < 2 THEN {Return(s, <<>>, <<>>, ErrSyntax)}
    ELSE IF ToLower(args[1]) # tokUser THEN {Return(s, <<>>, <<>>, ErrSyntax)}
    ELSE
    LET ok == StatusLine(250, "authenticated")
        cont == StatusLine(350, "Continue")
        Authenticated(log, parts, au) ==
            LET c == Call("Authenticate", s.backend, NoGroup, args[2], parts[3], 0, 0, au)
            IN  IF au.err # Nil THEN Return(s, <<cont>>, Append(log, c), au.err)
                ELSE Return(IF au.be # NoBackend THEN [s EXCEPT !.backend = au.be] ELSE s,
                            <<cont, ok>>, log \o <<c, PrintfLine(ok)>>, Nil)
        Continued(cz, parts) ==
            LET log == <<cz, PrintfLine(cont), ReadLine(parts)>>
            IN  IF ToLower(parts[1]) # tokAuthinfo THEN {Return(s, <<cont>>, log, ErrSyntax)}
                ELSE IF Len(parts) < 2 THEN {Panic(s, <<cont>>, log)}
                ELSE IF ToLower(parts[2]) # tokPass THEN {Return(s, <<cont>>, log, ErrSyntax)}
                ELSE IF Len(parts) < 3 THEN {Panic(s, <<cont>>, log)}
                ELSE {Authenticated(log, parts, au) : au \in AuthenticateRets}
        Asked(az) ==
            LET c == Call("Authorized", s.backend, NoGroup, <<>>, <<>>, 0, 0, az)
            IN  IF az.flag THEN {Return(s, <<ok>>, <<c, PrintfLine(ok)>>, Nil)}
                ELSE UNION {Continued(c, parts) : parts \in FollowUps}
    IN  UNION {Asked(az) : az \in BoolRets}

\* ----------------------------------------------------------- couchBackend

\* cb.groups == nil
NilGroups == 0

\* The article numbers of the documents the store holds for the one group of
\* the model when the backend starts.
StoredNums == <<1>>

RECURSIVE MaxOf(_)
MaxOf(nums) ==
    IF Len(nums) = 0 THEN 0
    ELSE LET m == MaxOf(Tail(nums)) IN IF Head(nums) > m THEN Head(nums) ELSE m

\* The row of the view _design/groups/_view/active for the group: count and
\* high of the documents in the store.
ActiveView(db) == [High |-> MaxOf(db), Count |-> Len(db)]

\* The couchBackend: groups is the cache (nil, or the Group object the
\* group's name maps to, by its place in heap), heap the Group objects made
\* so far, db the article numbers of the documents in the store.
CouchBackend(groups, heap, db) == [groups |-> groups, heap |-> heap, db |-> db]

\* The backend as main makes it.
NewCouchBackend == CouchBackend(NilGroups, <<>>, StoredNums)

\* clearGroups, under the lock.
clearGroups(b) == [b EXCEPT !.groups = NilGroups]

\* fetchGroups, under the lock: a cache that is there is kept, otherwise a
\* new Group object is made from the view and the cache points to it.
fetchGroups(b) ==
    IF b.groups # NilGroups THEN b
    ELSE CouchBackend(Len(b.heap) + 1, Append(b.heap, ActiveView(b.db)), b.db)

\* The Post calls, and the locals of one: where it is, the Group object
\* GetGroup gave it and the number it took.
Posts == 1..MaxPosts

PostLocals(pc, group, num) == [pc |-> pc, group |-> group, num |-> num]

NoPosts == [p \in Posts |-> PostLocals("idle", NilGroups, 0)]

\* Post, in GetGroup: `if cb.groups == nil { cb.fetchGroups() }`, the check
\* made without the lock.
PostCheck(p) ==
    /\ posts[p].pc = "idle"
    /\ cb.groups = NilGroups => Len(cb.heap) < MaxFills
    /\ cb' = fetchGroups(cb)
    /\ posts' = [posts EXCEPT ![p].pc = "lookup"]
    /\ UNCHANGED <<status, sess, last, gets, lazy>>

\* Post, in GetGroup: `g, exists := cb.groups[name]`, read without the lock;
\* a nil map has no entry, and Post then finds no group.
PostLookup(p) ==
    /\ posts[p].pc = "lookup"
    /\ posts' = [posts EXCEPT ![p] =
                  IF cb.groups = NilGroups THEN PostLocals("nogroup", NilGroups, 0)
                  ELSE PostLocals("found", cb.groups, 0)]
    /\ UNCHANGED <<status, sess, last, cb, gets, lazy>>

\* Post: a.Nums[g] = atomic.AddInt64(&group.High, 1)
PostAddHigh(p) ==
    /\ posts[p].pc = "found"
    /\ cb' = [cb EXCEPT !.heap[posts[p].group].High = @ + 1]
    /\ posts' = [posts EXCEPT ![p].pc = "numbered",
                            ![p].num = cb.heap[posts[p].group].High + 1]
    /\ UNCHANGED <<status, sess, last, gets, lazy>>

\* Post: atomic.AddInt64(&group.Count, 1)
PostAddCount(p) ==
    /\ posts[p].pc = "numbered"
    /\ cb' = [cb EXCEPT !.heap[posts[p].group].Count = @ + 1]
    /\ posts' = [posts EXCEPT ![p].pc = "counted"]
    /\ UNCHANGED <<status, sess, last, gets, lazy>>

\* Post: cb.db.Insert(&a), the document with its number reaches the store.
PostInsert(p) ==
    /\ posts[p].pc = "counted"
    /\ cb' = [cb EXCEPT !.db = Append(@, posts[p].num)]
    /\ posts' = [posts EXCEPT ![p].pc = "done"]
    /\ UNCHANGED <<status, sess, last, gets, lazy>>

\* The goroutine fetchGroups started wakes up and purges the cache.
Purge ==
    /\ cb.groups # NilGroups
    /\ cb' = clearGroups(cb)
    /\ UNCHANGED <<status, sess, last, posts, gets, lazy>>

\* ------------------------------------- couchBackend, the cache step by step

\* The GetGroup and ListGroups calls of the connections.
MaxGets == 2

Gets == 1..MaxGets

\* cb.groups just made by fetchGroups: a map with no entry yet.
EmptyGroups == -1

\* What a call returned: an error, the Group object (by its place in heap),
\* the length of the list, and whether the runtime ended the program
\* (concurrent map read and map write).
GetRet(err, group, len, fatal) ==
    [err |-> err, group |-> group, len |-> len, fatal |-> fatal]

NoRet == GetRet(Nil, NilGroups, 0, FALSE)

\* The locals of one call: the method, where it is, and what it returned.
GetLocals(op, pc, ret) == [op |-> op, pc |-> pc, ret |-> ret]

NoGets == [g \in Gets |-> GetLocals("", "idle", NoRet)]

\* grouplock is held by the call that is inside fetchGroups.
LockHeld == \E g \in Gets : gets[g].pc \in {"locked", "made", "writing"}

\* The runtime has ended the program.
Crashed == \E g \in Gets : gets[g].ret.fatal

\* GetGroup and ListGroups begin: `if cb.groups == nil`, read without the
\* lock; a nil cache sends the call to fetchGroups.
GetCheck(g, op) ==
    /\ ~Crashed
    /\ gets[g].pc = "idle"
    /\ cb.groups = NilGroups => Len(cb.heap) < MaxFills
    /\ gets' = [gets EXCEPT ![g] =
                  GetLocals(op, IF cb.groups = NilGroups THEN "waiting" ELSE "lookup",
                            NoRet)]
    /\ UNCHANGED <<status, sess, last, cb, posts, lazy>>

\* fetchGroups takes the lock and looks again: a cache that is there now
\* makes it return, otherwise it queries the view (the store answers).
FillLock(g) ==
    /\ ~Crashed
    /\ gets[g].pc = "waiting"
    /\ ~LockHeld
    /\ cb.groups = NilGroups => Len(cb.heap) < MaxFills
    /\ gets' = [gets EXCEPT ![g].pc =
                  IF cb.groups = NilGroups THEN "locked" ELSE "lookup"]
    /\ UNCHANGED <<status, sess, last, cb, posts, lazy>>

\* fetchGroups: cb.groups = make(map[string]*nntp.Group)
FillMake(g) ==
    /\ ~Crashed
    /\ gets[g].pc = "locked"
    /\ cb' = [cb EXCEPT !.groups = EmptyGroups]
    /\ gets' = [gets EXCEPT ![g].pc = "made"]
    /\ UNCHANGED <<status, sess, last, posts, lazy>>

\* fetchGroups, in the loop over the rows: the Group object is made from the
\* row and the write of the map entry begins.
FillInsertBegin(g) ==
    /\ ~Crashed
    /\ gets[g].pc = "made"
    /\ cb' = [cb EXCEPT !.heap = Append(@, ActiveView(cb.db))]
    /\ gets' = [gets EXCEPT ![g].pc = "writing"]
    /\ UNCHANGED <<status, sess, last, posts, lazy>>

\* fetchGroups: the entry is in the map; the purge goroutine is started, the
\* lock released, and the caller goes on to its lookup.
FillInsertEnd(g) ==
    /\ ~Crashed
    /\ gets[g].pc = "writing"
    /\ cb' = [cb EXCEPT !.groups = Len(cb.heap)]
    /\ gets' = [gets EXCEPT ![g].pc = "lookup"]
    /\ UNCHANGED <<status, sess, last, posts, lazy>>

\* What the caller's read of cb.groups, made without the lock, may give: the
\* entry of a filled map, nothing for a nil or an empty map, and while
\* another call writes the map nothing, the entry, or the end of the
\* program.
LookupRets(op, b, writing) ==
    LET hit(k) == IF op = "GetGroup" THEN GetRet(Nil, k, 0, FALSE)
                  ELSE GetRet(Nil, NilGroups, 1, FALSE)
        miss == IF op = "GetGroup" THEN GetRet(ErrNoSuchGroup, NilGroups, 0, FALSE)
                ELSE GetRet(Nil, NilGroups, 0, FALSE)
    IN  IF writing THEN {miss, hit(Len(b.heap)), GetRet(Nil, NilGroups, 0, TRUE)}
        ELSE IF b.groups \in {NilGroups, EmptyGroups} THEN {miss}
        ELSE {hit(b.groups)}

\* GetGroup: `g, exists := cb.groups[name]`; ListGroups: the loop over
\* cb.groups.  Both read the cache without the lock and return.
GetLookup(g) ==
    /\ ~Crashed
    /\ gets[g].pc = "lookup"
    /\ \E ret \in LookupRets(gets[g].op, cb,
                             \E h \in Gets \ {g} : gets[h].pc = "writing") :
          gets' = [gets EXCEPT ![g].pc = "done", ![g].ret = ret]
    /\ UNCHANGED <<status, sess, last, cb, posts, lazy>>

\* The purge goroutine, which takes the lock.
LockedPurge == ~Crashed /\ ~LockHeld /\ Purge

\* ------------------------------------------------------------- lazyOpener

\* The bytes of a response body, the longest body and the largest buffer of
\* the model.
MaxBody == 3

MaxBuf == 2

BodyBytes == {"x", "y"}

\* l.data: nil, or a slice.
NilData == [nil |-> TRUE, bytes |-> <<>>]

Data(bytes) == [nil |-> FALSE, bytes |-> bytes]

\* errors.New(res.Status)
ErrStatus == [kind |-> "other", code |-> 0, msg |-> "404 Object Not Found"]

\* What the store will answer to http.Get(l.url): the error of the request,
\* the status of the response, and what ioutil.ReadAll gives for its body
\* (the bytes read, all of them or those before the failure, and the error).
Fetch(err, code, bytes, readErr) ==
    [err |-> err, code |-> code, bytes |-> bytes, readErr |-> readErr]

Fetches ==
    {Fetch(ErrOther, 0, <<>>, Nil)}
    \cup {Fetch(Nil, code, bytes, readErr) :
            code \in {200, 404},
            bytes \in UNION {[1..k -> BodyBytes] : k \in 0..MaxBody},
            readErr \in {Nil, ErrOther}}

\* &lazyOpener{url, nil, nil}
LazyOpener(data, err) == [data |-> data, err |-> err]

NewLazyOpener == LazyOpener(NilData, Nil)

\* lazyOpener.init, statement by statement.
lazyInit(l, res) ==
    LET l1 == [l EXCEPT !.err = res.err]
        l2 == IF res.code # 200 THEN [l1 EXCEPT !.err = ErrStatus] ELSE l1
        l3 == LazyOpener(Data(res.bytes), res.readErr)
    IN  IF res.err = Nil THEN l3 ELSE l1

\* lazyOpener.Read with a buffer of len(p) = size: the opener afterwards, the
\* bytes copied into p, the results n and err, and whether init ran.  The
\* result err is never assigned: `return 0, err` returns nil.
lazyRead(l, size, res) ==
    LET opens == l.data.nil /\ l.err = Nil
        l1 == IF opens THEN lazyInit(l, res) ELSE l
        copied == IF size < Len(l1.data.bytes) THEN size ELSE Len(l1.data.bytes)
    IN  IF l1.err # Nil
        THEN [l |-> l1, p |-> <<>>, n |-> 0, err |-> Nil, opens |-> opens]
        ELSE IF Len(l1.data.bytes) = 0
        THEN [l |-> l1, p |-> <<>>, n |-> 0, err |-> EOF, opens |-> opens]
        ELSE [l |-> [l1 EXCEPT !.data.bytes = SubSeq(@, copied + 1, Len(@))],
              p |-> SubSeq(l1.data.bytes, 1, copied), n |-> copied, err |-> Nil,
              opens |-> opens]

\* A body and the loop that drains it (io.Copy in BODY and ARTICLE): the
\* answer the store has for it, the opener, the Reads made (0, 1, or 2 for
\* more), the number of fetches, the bytes delivered, the buffer size and the
\* results of the latest Read, and whether the loop has stopped.
Drain(res, l, reads, fetches, out, size, n, err, stopped) ==
    [res |-> res, l |-> l, reads |-> reads, fetches |-> fetches, out |-> out,
     size |-> size, n |-> n, err |-> err, stopped |-> stopped]

NoLazy == Drain(Fetch(Nil, 200, <<>>, Nil), NewLazyOpener, 0, 0, <<>>, 0, 0, Nil, FALSE)

\* One turn of the loop: Read into a buffer of the given size, keep the bytes,
\* stop on an error.
DrainRead(size) ==
    /\ ~lazy.stopped
    /\ LET r == lazyRead(lazy.l, size, lazy.res)
       IN  lazy' = Drain(lazy.res, r.l,
                         IF lazy.reads < 2 THEN lazy.reads + 1 ELSE 2,
                         lazy.fetches + (IF r.opens THEN 1 ELSE 0),
                         lazy.out \o r.p, size, r.n, r.err, r.err # Nil)
    /\ UNCHANGED <<status, sess, last, cb, posts, gets>>

\* ------------------------------------------------------------- dispatcher

\* NewServer: the handlers by command name; "" is the default handler.
Handlers ==
    (<<>> :> "handleDefault")
    @@ (<<"q", "u", "i", "t">> :> "handleQuit")
    @@ (<<"g", "r", "o", "u", "p">> :> "handleGroup")
    @@ (<<"l", "i", "s", "t", "g", "r", "o", "u", "p">> :> "handleListGroup")
    @@ (<<"l", "i", "s", "t">> :> "handleList")
    @@ (<<"h", "e", "a", "d">> :> "handleHead")
    @@ (<<"b", "o", "d", "y">> :> "handleBody")
    @@ (<<"a", "r", "t", "i", "c", "l", "e">> :> "handleArticle")
    @@ (<<"p", "o", "s", "t">> :> "handlePost")
    @@ (<<"i", "h", "a", "v", "e">> :> "handleIHave")
    @@ (<<"c", "a", "p", "a", "b", "i", "l", "i", "t", "i", "e", "s">> :> "handleCap")
    @@ (<<"m", "o", "d", "e">> :> "handleMode")
    @@ (<<"a", "u", "t", "h", "i", "n", "f", "o">> :> "handleAuthInfo")
    @@ (<<"n", "e", "w", "g", "r", "o", "u", "p", "s">> :> "handleNewGroups")
    @@ (<<"o", "v", "e", "r">> :> "handleOver")
    @@ (<<"x", "o", "v", "e", "r">> :> "handleOver")

\* session.dispatchCommand: the handler of a command token.
dispatchCommand(cmd) ==
    LET name == ToLower(cmd)
    IN  IF name \in DOMAIN Handlers THEN Handlers[name] ELSE Handlers[<<>>]

\* The command tokens of the model: every registered name as NewServer
\* spells it, some of them in upper case, an unknown command and the empty
\* line.
CommandTokens ==
    (DOMAIN Handlers) \cup {<<"G", "R", "O", "U", "P">>, <<"X", "O", "V", "E", "R">>, <<"b", "o", "g", "u", "s">>}

\* args of Server.Process: the tokens after the command.
ArgsOf(line) == IF Len(line) > 1 THEN Tail(line) ELSE <<>>

\* The request lines that reach a handler, with the given argument lists.
Lines(handler, argss) ==
    {<<c>> \o a : c \in {t \in CommandTokens : dispatchCommand(t) = handler}, a \in argss}

\* The error switch treating an NNTPError like any other error.
ProcessResult_DropOnNNTPError(res) ==
    IF res.panic THEN [status |-> "panicked", dlines |-> <<>>, sess |-> res.sess]
    ELSE IF res.err = Nil THEN [status |-> "running", dlines |-> <<>>, sess |-> res.sess]
    ELSE [status |-> "closed", dlines |-> <<>>, sess |-> res.sess]

\* The error switch of Server.Process on what the handler left: the lines the
\* dispatcher adds and whether the loop goes on.  c.PrintfLine(err.Error())
\* takes the text as a format; the reason phrases of the model hold no "%".
ProcessResult(res) ==
    IF res.panic THEN [status |-> "panicked", dlines |-> <<>>, sess |-> res.sess]
    ELSE IF res.err = Nil THEN [status |-> "running", dlines |-> <<>>, sess |-> res.sess]
    ELSE IF res.err = EOF THEN [status |-> "closed", dlines |-> <<>>, sess |-> res.sess]
    ELSE IF res.err.kind = "nntp"
    THEN [status |-> "running", dlines |-> <<ErrorText(res.err)>>, sess |-> res.sess]
    ELSE [status |-> "closed", dlines |-> <<>>, sess |-> res.sess]

\* What the model remembers of the latest event on the connection: the
\* request line, the handler it reached, the session before it and as the
\* handler left it, the lines the handler (hlines) and then the dispatcher
\* (dlines) wrote, the backend calls and what the handler returned.
Event(ev, cmd, args, handler, before, left, hlines, dlines, calls, err, panic) ==
    [ev |-> ev, cmd |-> cmd, args |-> args, handler |-> handler, before |-> before,
     left |-> left, hlines |-> hlines, dlines |-> dlines, calls |-> calls,
     err |-> err, panic |-> panic]

\* One turn of the loop of Server.Process: the request line is read and
\* dispatched to its handler, which leaves res.
Serve(line, handler, res) ==
    LET p == ProcessResult(res)
    IN  /\ status = "running"
        /\ status' = p.status
        /\ sess' = p.sess
        /\ last' = Event("request", line[1], ArgsOf(line), handler, sess, res.sess,
                         res.lines, p.dlines, res.calls, res.err, res.panic)
        /\ UNCHANGED <<cb, posts, gets, lazy>>

\* Server.Process up to its loop: a new session, greeted.
Init ==
    /\ cb = NewCouchBackend
    /\ posts = NoPosts
    /\ gets = NoGets
    /\ lazy = NoLazy
    /\ status = "running"
    /\ sess = Session(DefaultBackend, NoGroup)
    /\ last = Event("connect", <<>>, <<>>, "", Session(DefaultBackend, NoGroup),
                    Session(DefaultBackend, NoGroup), <<>>,
                    <<StatusLine(200, "Hello!")>>, <<>>, Nil, FALSE)

\* c.ReadLine() fails: the connection is dropped.
ReadFail ==
    /\ status = "running"
    /\ status' = "closed"
    /\ sess' = sess
    /\ last' = Event("readfail", <<>>, <<>>, "", sess, sess, <<>>, <<>>, <<>>, Nil, FALSE)
    /\ UNCHANGED <<cb, posts, gets, lazy>>

\* --------------------------------------------------------------- requests

\* Range arguments: absent bounds, a zero and an inverted range, the
\* single-number form.
RangeTokens ==
    {<<>>, <<"1", "-">>, <<"0", "-", "5">>, <<"2", "-", "1">>, <<"5">>,
     <<"1", "-", "2">>}

\* Article ids: a number and a message-id.
IdTokens == {<<"1">>, <<"<", "m", "1", ">">>}

DefaultRequests == Lines("handleDefault", {<<>>, <<<<"x">>>>})

QuitRequests == Lines("handleQuit", {<<>>})

GroupRequests == Lines("handleGroup", {<<>>} \cup {<<n>> : n \in GroupNames})

ListGroupRequests ==
    Lines("handleListGroup",
          {<<>>} \cup {<<n>> : n \in GroupNames}
          \cup {<<n, r>> : n \in GroupNames, r \in RangeTokens})

ListRequests ==
    Lines("handleList",
          {<<>>, <<tokActive>>, <<tokNewsgroups>>, <<tokOverviewFmt>>,
           <<<<"O", "V", "E", "R", "V", "I", "E", "W", ".", "F", "M", "T">>>>,
           <<<<"x">>>>})

NewGroupsRequests == Lines("handleNewGroups", {<<>>})

ArticleArgs == {<<>>} \cup {<<i>> : i \in IdTokens}

HeadRequests == Lines("handleHead", ArticleArgs)

BodyRequests == Lines("handleBody", ArticleArgs)

ArticleRequests == Lines("handleArticle", ArticleArgs)

OverRequests ==
    Lines("handleOver", {<<>>, <<<<>>>>, <<<<"5">>>>, <<<<"1", "-", "2">>>>})

PostRequests == Lines("handlePost", {<<>>})

IHaveRequests == Lines("handleIHave", {<<>>, <<<<"<", "m", "1", ">">>>>})

CapRequests == Lines("handleCap", {<<>>})

ModeRequests == Lines("handleMode", {<<>>, <<<<"r">>>>})

AuthInfoRequests ==
    Lines("handleAuthInfo",
          {<<tokUser>>, <<tokUser, <<"n">>>>, <<<<"U", "S", "E", "R">>, <<"n">>>>,
           <<tokPass, <<"p", "w">>>>})

DoDefault ==
    \E l \in DefaultRequests : \E res \in handleDefault(ArgsOf(l), sess) :
        Serve(l, "handleDefault", res)

DoQuit ==
    \E l \in QuitRequests : \E res \in handleQuit(ArgsOf(l), sess) :
        Serve(l, "handleQuit", res)

DoGroup ==
    \E l \in GroupRequests : \E res \in handleGroup(ArgsOf(l), sess) :
        Serve(l, "handleGroup", res)

DoListGroup ==
    \E l \in ListGroupRequests : \E res \in handleListGroup(ArgsOf(l), sess) :
        Serve(l, "handleListGroup", res)

DoList ==
    \E l \in ListRequests : \E res \in handleList(ArgsOf(l), sess) :
        Serve(l, "handleList", res)

DoNewGroups ==
    \E l \in NewGroupsRequests : \E res \in handleNewGroups(ArgsOf(l), sess) :
        Serve(l, "handleNewGroups", res)

DoHead ==
    \E l \in HeadRequests : \E res \in handleHead(ArgsOf(l), sess) :
        Serve(l, "handleHead", res)

DoBody ==
    \E l \in BodyRequests : \E res \in handleBody(ArgsOf(l), sess) :
        Serve(l, "handleBody", res)

DoArticle ==
    \E l \in ArticleRequests : \E res \in handleArticle(ArgsOf(l), sess) :
        Serve(l, "handleArticle", res)

DoOver ==
    \E l \in OverRequests : \E res \in handleOver(ArgsOf(l), sess) :
        Serve(l, "handleOver", res)

DoPost ==
    \E l \in PostRequests : \E res \in handlePost(ArgsOf(l), sess) :
        Serve(l, "handlePost", res)

DoIHave ==
    \E l \in IHaveRequests : \E res \in handleIHave(ArgsOf(l), sess) :
        Serve(l, "handleIHave", res)

DoCap ==
    \E l \in CapRequests : \E res \in handleCap(ArgsOf(l), sess) :
        Serve(l, "handleCap", res)

DoMode ==
    \E l \in ModeRequests : \E res \in handleMode(ArgsOf(l), sess) :
        Serve(l, "handleMode", res)

DoAuthInfo ==
    \E l \in AuthInfoRequests : \E res \in handleAuthInfo(ArgsOf(l), sess) :
        Serve(l, "handleAuthInfo", res)

Next ==
    \/ ReadFail
    \/ DoDefault
    \/ DoQuit
    \/ DoGroup
    \/ DoListGroup
    \/ DoList
    \/ DoNewGroups
    \/ DoHead
    \/ DoBody
    \/ DoArticle
    \/ DoOver
    \/ DoPost
    \/ DoIHave
    \/ DoCap
    \/ DoMode
    \/ DoAuthInfo

Spec == Init /\ [][Next]_vars

\* ------------------------------------------------------------ parseRange

\* The fields of the range strings parseRange is given: empty, numbers,
\* a signed number, a word, the largest number ParseInt takes and numbers
\* beyond it.
RangeFields ==
    {<<>>, <<"0">>, <<"1">>, <<"5">>, <<"+", "5">>, <<"x">>, <<"1", "x">>,
     <<"2", "1", "4", "7", "4", "8", "3", "6", "4", "7">>,
     <<"2", "1", "4", "7", "4", "8", "3", "6", "4", "8">>,
     <<"9", "9", "9", "9", "9", "9", "9", "9", "9", "9", "9">>}

\* The fields joined by "-".
RECURSIVE JoinFields(_)
JoinFields(fs) ==
    IF Len(fs) = 1 THEN fs[1] ELSE fs[1] \o <<"-">> \o JoinFields(Tail(fs))

\* The range strings: up to MaxFields fields.
RangeSpecs == {JoinFields(fs) : fs \in UNION {[1..k -> RangeFields] : k \in 1..MaxFields}}

\* parseRange is about to be called with a range string.
RangeInit ==
    /\ cb = NewCouchBackend
    /\ posts = NoPosts
    /\ gets = NoGets
    /\ lazy = NoLazy
    /\ status = "running"
    /\ sess = Session(DefaultBackend, NoGroup)
    /\ \E spec \in RangeSpecs : last = [ev |-> "call", spec |-> spec, low |-> 0, high |-> 0]

\* parseRange returns.
CallParseRange ==
    /\ last.ev = "call"
    /\ last' = [ev |-> "return", spec |-> last.spec,
                low |-> parseRange(last.spec)[1], high |-> parseRange(last.spec)[2]]
    /\ UNCHANGED <<status, sess, cb, posts, gets, lazy>>

RangeNext == CallParseRange

RangeSpec == RangeInit /\ [][RangeNext]_vars

\* ----------------------------------------------------------- sendHeaders

\* The value lists of a header: one value, several, the same value twice,
\* and the empty list a backend can build by hand.
HeaderValues == {<<>>, <<"v">>, <<"v", "w">>, <<"w", "w">>}

\* The header maps of the articles sendHeaders is given: up to MaxHeaders
\* canonical names, each with a value list.
HeaderMaps ==
    UNION {[names -> HeaderValues] :
              names \in {n \in SUBSET {SortedHeaderNames[i] : i \in DOMAIN SortedHeaderNames} :
                            Cardinality(n) <= MaxHeaders}}

\* sendHeaders is about to be called with an article.
HeadersInit ==
    /\ cb = NewCouchBackend
    /\ posts = NoPosts
    /\ gets = NoGets
    /\ lazy = NoLazy
    /\ status = "running"
    /\ sess = Session(DefaultBackend, NoGroup)
    /\ \E hdr \in HeaderMaps :
          last = [ev |-> "call", hdr |-> hdr, lines |-> <<>>, panic |-> FALSE]

\* sendHeaders returns, or panics.
CallSendHeaders ==
    /\ last.ev = "call"
    /\ LET h == sendHeaders(Article(last.hdr, 0, 0))
       IN  last' = [ev |-> "return", hdr |-> last.hdr, lines |-> h.lines,
                    panic |-> h.panic]
    /\ UNCHANGED <<status, sess, cb, posts, gets, lazy>>

HeadersNext == CallSendHeaders

HeadersSpec == HeadersInit /\ [][HeadersNext]_vars

\* ------------------------------------------------- concurrent connections

\* The connections, each served by a Server.Process of its own.
Conns == 1..MaxConns

\* The Server, as far as a connection reads it: its Backend.
Server(backend) == [Backend |-> backend]

\* The session Server.Process makes for a new connection.
NewSession(server) == Session(server.Backend, NoGroup)

\* No session: the connection has not been accepted.
NoSession == Session(NoBackend, NoGroup)

\* What the model remembers of the latest step of the server: the connection
\* that took it and the handler.
ConnEvent(ev, c, handler, panic) ==
    [ev |-> ev, conn |-> c, handler |-> handler, panic |-> panic]

\* A request on one connection leaving its session to every connection, as
\* it would with the session kept in the Server.
ServeOn_SharedSession(all, c, res) ==
    [all EXCEPT !.conns = [d \in DOMAIN all.conns |->
                             IF all.conns[d] = NoSession THEN NoSession
                             ELSE ProcessResult(res).sess]]

\* The server and the sessions after a request on connection c whose handler
\* left res: the handler was given the session of c, and no other.
ServeOn(all, c, res) == [all EXCEPT !.conns[c] = ProcessResult(res).sess]

\* What a request on connection c may leave, for the results its handler may
\* return: the server and the sessions, whether the loop of c goes on, and
\* whether the handler panicked.
Outcomes(all, c, results) ==
    {[all |-> ServeOn(all, c, res), status |-> ProcessResult(res).status,
      panic |-> res.panic] : res \in results}

\* The server is up and has accepted nothing.
ServerInit ==
    /\ cb = NewCouchBackend
    /\ posts = NoPosts
    /\ gets = NoGets
    /\ lazy = NoLazy
    /\ status = [c \in Conns |-> "none"]
    /\ sess = [server |-> Server(DefaultBackend), conns |-> [c \in Conns |-> NoSession]]
    /\ last = ConnEvent("start", 0, "", FALSE)

\* Server.Process is started for a new connection.
Accept(c) ==
    /\ status[c] = "none"
    /\ status' = [status EXCEPT ![c] = "running"]
    /\ sess' = [sess EXCEPT !.conns[c] = NewSession(sess.server)]
    /\ last' = ConnEvent("connect", c, "", FALSE)
    /\ UNCHANGED <<cb, posts, gets, lazy>>

\* One turn of the loop of the Server.Process of connection c.  A panic of
\* the handler ends the program, and every connection with it; when Process
\* returns, its session is gone with it.
ConnServe(c, handler, out) ==
    /\ status[c] = "running"
    /\ status' = IF out.panic
                 THEN [d \in Conns |-> IF status[d] = "running" THEN "panicked"
                                       ELSE status[d]]
                 ELSE [status EXCEPT ![c] = out.status]
    /\ sess' = IF out.status = "closed" /\ ~out.panic
               THEN [out.all EXCEPT !.conns[c] = NoSession]
               ELSE out.all
    /\ last' = ConnEvent("request", c, handler, out.panic)
    /\ UNCHANGED <<cb, posts, gets, lazy>>

\* The requests of a connection that can change its session: GROUP name,
\* LISTGROUP with and without a name, AUTHINFO USER, and QUIT.
ConnGroup(c) ==
    \E n \in GroupNames :
        \E out \in Outcomes(sess, c, handleGroup(<<n>>, sess.conns[c])) :
            ConnServe(c, "handleGroup", out)

ConnListGroup(c) ==
    \E args \in {<<>>} \cup {<<n>> : n \in GroupNames} :
        \E out \in Outcomes(sess, c, handleListGroup(args, sess.conns[c])) :
            ConnServe(c, "handleListGroup", out)

ConnAuthInfo(c) ==
    \E out \in Outcomes(sess, c, handleAuthInfo(<<tokUser, <<"n">>>>, sess.conns[c])) :
        ConnServe(c, "handleAuthInfo", out)

ConnQuit(c) ==
    \E out \in Outcomes(sess, c, handleQuit(<<>>, sess.conns[c])) :
        ConnServe(c, "handleQuit", out)

ServerNext ==
    \E c \in Conns :
        \/ Accept(c)
        \/ ConnGroup(c)
        \/ ConnListGroup(c)
        \/ ConnAuthInfo(c)
        \/ ConnQuit(c)

ServerSpec == ServerInit /\ [][ServerNext]_vars

\* ------------------------------------------- couchBackend, concurrently

\* The backend is up, its cache not yet filled, and no Post has begun.
BackendInit ==
    /\ status = "running"
    /\ sess = Session(DefaultBackend, NoGroup)
    /\ last = Event("connect", <<>>, <<>>, "", Session(DefaultBackend, NoGroup),
                    Session(DefaultBackend, NoGroup), <<>>,
                    <<StatusLine(200, "Hello!")>>, <<>>, Nil, FALSE)
    /\ cb = NewCouchBackend
    /\ posts = NoPosts
    /\ gets = NoGets
    /\ lazy = NoLazy

BackendNext ==
    \/ Purge
    \/ \E p \in Posts :
          \/ PostCheck(p)
          \/ PostLookup(p)
          \/ PostAddHigh(p)
          \/ PostAddCount(p)
          \/ PostInsert(p)

BackendSpec == BackendInit /\ [][BackendNext]_vars

\* ----------------------------------------------------------------- claims

\* The latest event is a request served by one of the handlers.
Served(handlers) == last.ev = "request" /\ last.handler \in handlers

\* The calls of the latest request to a Backend method.
CallsOf(op) == {i \in DOMAIN last.calls : last.calls[i].op = op}

\* C1: the selected group is the group of the most recent GROUP or LISTGROUP
\* whose GetGroup lookup succeeded (none if there was none), and a GROUP or
\* LISTGROUP that fails leaves the selection as it was.  Stated request by
\* request: a request binds the group its successful GetGroup returned, any
\* other request keeps the selection, and so does a failed GROUP or LISTGROUP
\* (on a connection that is still served).
C1_SelectionIsLastBoundAndSurvivesFailure ==
    (last.ev = "request" /\ status = "running") =>
        LET bound == {i \in CallsOf("GetGroup") :
                        /\ last.handler \in {"handleGroup", "handleListGroup"}
                        /\ last.calls[i].ret.err = Nil}
        IN  /\ \A i \in bound : sess.group = last.calls[i].ret.grp
            /\ bound = {} => sess.group = last.before.group
            /\ (last.handler \in {"handleGroup", "handleListGroup"} /\ last.err # Nil)
                   => sess.group = last.before.group

\* The lines of the latest request's response, in the order written.
Response == last.hlines \o last.dlines

\* The response without the 3xx lines that ask the client to go on.
FinalResponse ==
    SelectSeq(Response, LAMBDA l : ~(l.kind = "status" /\ l.code \in {335, 340, 350}))

\* C2: a request that leaves the connection open is answered by exactly one
\* status line, or by exactly one intro line, data lines and the "." line,
\* with no status line after the block.
C2_OneResponsePerRequest ==
    (last.ev = "request" /\ status = "running") =>
        LET r == FinalResponse
        IN  /\ Len(r) >= 1
            /\ r[1].kind = "status"
            /\ Len(r) > 1 =>
                   /\ r[Len(r)].kind = "dot"
                   /\ \A i \in 2..(Len(r) - 1) : r[i].kind = "data"

\* The codes of the intro lines of the multi-line responses, by handler.
IntroCodes(handler) ==
    CASE handler = "handleCap" -> {101}
      [] handler = "handleList" -> {215}
      [] handler = "handleListGroup" -> {211}
      [] handler = "handleNewGroups" -> {231}
      [] handler = "handleHead" -> {221}
      [] handler = "handleBody" -> {222}
      [] handler = "handleArticle" -> {220}
      [] handler = "handleOver" -> {224}
      [] OTHER -> {}

\* C3: when a handler is done (returned or failed), every intro line of a
\* multi-line response it wrote is followed, among the handler's own lines,
\* by data lines only and then the "." line; so the block is closed before
\* the dispatcher or a later request writes anything.
C3_StartedBlockIsClosed ==
    last.ev = "request" =>
        \A i \in DOMAIN last.hlines :
            (last.hlines[i].kind = "status"
             /\ last.hlines[i].code \in IntroCodes(last.handler)) =>
                \E j \in (i + 1)..Len(last.hlines) :
                    /\ last.hlines[j].kind = "dot"
                    /\ \A k \in (i + 1)..(j - 1) : last.hlines[k].kind = "data"

\* ARTICLE wrote its intro line and then failed copying the body.
C3_Witness ==
    /\ Served({"handleArticle"})
    /\ last.err # Nil
    /\ Len(last.hlines) >= 2
    /\ last.hlines[1].code = 220
    /\ last.hlines[Len(last.hlines)].kind = "dot"

C5_ClosedExactlyOnReadFailEofOrOtherError ==
    /\ (status # "running") <=>
           \/ last.ev = "readfail"
           \/ last.ev = "request" /\ last.err.kind \in {"eof", "other"}
    /\ status # "running" => (last.dlines = <<>> /\ ~ENABLED Next)
    /\ Served({"handleQuit"}) =>
           (status = "closed" /\ Response = <<StatusLine(205, "bye")>>)

\* The response is the one status line with the given code.
RepliedOnly(code) ==
    /\ Len(Response) = 1
    /\ Response[1].kind = "status"
    /\ Response[1].code = code

\* The latest request made exactly one backend call, of the given method on
\* the session's backend.
OnlyCall(op) ==
    /\ Len(last.calls) = 1
    /\ last.calls[1].op = op
    /\ last.calls[1].be = last.before.backend

\* What GROUP does when it has an argument: one GetGroup(name); a group found
\* becomes the selection and is shown as "211 count low high name"; a group
\* reported missing is answered 411 and the selection stays.
GroupWithName ==
    (Served({"handleGroup"}) /\ Len(last.args) >= 1) =>
        LET ret == last.calls[1].ret
        IN  /\ OnlyCall("GetGroup")
            /\ last.calls[1].tok = last.args[1]
            /\ ret.err = Nil =>
                  /\ sess.group = ret.grp
                  /\ Response = <<Line("status", 211,
                                       <<ret.grp.count, ret.grp.low, ret.grp.high>>,
                                       ret.grp.name, <<>>)>>
            /\ ret.err = ErrNoSuchGroup =>
                  /\ RepliedOnly(411)
                  /\ sess.group = last.before.group

\* C6, as the specification states it: GROUP name selects the group found
\* and replies "211 count low high name"; a missing group is answered 411;
\* GROUP with no argument is answered 412; in both error cases the selection
\* is untouched and with no argument GetGroup is not called.
C6_GroupNoArgumentIs412 ==
    /\ GroupWithName
    /\ (Served({"handleGroup"}) /\ Len(last.args) < 1) =>
          /\ RepliedOnly(412)
          /\ last.calls = <<>>
          /\ sess.group = last.before.group

\* C6, amended: as above, but GROUP with no argument is answered 411 (the
\* handler returns ErrNoSuchGroup), with no backend call and the selection
\* untouched.
C6_GroupNoArgumentIs411 ==
    /\ GroupWithName
    /\ (Served({"handleGroup"}) /\ Len(last.args) < 1) =>
          /\ RepliedOnly(411)
          /\ last.calls = <<>>
          /\ sess.group = last.before.group

\* GROUP with no argument, sent while a group is selected.
C6_Witness ==
    /\ Served({"handleGroup"})
    /\ last.args = <<>>
    /\ ~last.before.group.nil
    /\ RepliedOnly(411)

\* The range LISTGROUP parses: its second argument, or "1-".
ListGroupRange ==
    parseRange(IF Len(last.args) > 1 THEN last.args[2] ELSE tokDefaultRange)

\* The check LISTGROUP makes of its parsed range.
ValidListGroupRange == ListGroupRange[1] >= 1 /\ ListGroupRange[1] <= ListGroupRange[2]

\* C7: LISTGROUP with no group argument is answered 412 when no group is
\* selected, and otherwise lists the selected group with no GetGroup call and
\* the selection unchanged; with a group argument and a valid range it calls
\* GetGroup for that name and, on success, that group is the selection, the
\* group of the 211 line and the group passed to GetArticles.
C7_ListGroupArgumentSemantics ==
    Served({"handleListGroup"}) =>
        /\ (Len(last.args) = 0 /\ last.before.group.nil) =>
              /\ RepliedOnly(412)
              /\ last.calls = <<>>
              /\ sess.group = last.before.group
        /\ (Len(last.args) = 0 /\ ~last.before.group.nil) =>
              /\ OnlyCall("GetArticles")
              /\ last.calls[1].grp = last.before.group
              /\ sess.group = last.before.group
              /\ last.err = Nil =>
                    last.hlines[1] = GroupLine(last.before.group, <<"list follows">>)
        /\ (Len(last.args) >= 1 /\ ValidListGroupRange) =>
              /\ Len(last.calls) >= 1
              /\ last.calls[1].op = "GetGroup"
              /\ last.calls[1].tok = last.args[1]
              /\ CallsOf("GetGroup") = {1}
              /\ last.calls[1].ret.err = Nil =>
                    /\ sess.group = last.calls[1].ret.grp
                    /\ Len(last.calls) = 2
                    /\ last.calls[2].op = "GetArticles"
                    /\ last.calls[2].grp = last.calls[1].ret.grp
                    /\ last.err = Nil =>
                          last.hlines[1] =
                              GroupLine(last.calls[1].ret.grp, <<"list follows">>)

\* LISTGROUP b while group a is selected: b is fetched, bound, listed.
C7_Witness ==
    /\ Served({"handleListGroup"})
    /\ Len(last.args) >= 1
    /\ ~last.before.group.nil
    /\ last.before.group.name # last.args[1]
    /\ last.err = Nil
    /\ sess.group.name = last.args[1]
    /\ Len(last.calls) = 2

\* C8: LISTGROUP's range is "1-" when absent; a parsed range with from = 0,
\* from < 1 or from > to is answered 501 before the group is looked up: no
\* backend call is made and the selection is unchanged.
C8_ListGroupRangeValidation ==
    (Served({"handleListGroup"}) /\ ~(Len(last.args) = 0 /\ last.before.group.nil)) =>
        /\ Len(last.args) <= 1 =>
              \A i \in CallsOf("GetArticles") :
                  last.calls[i].lo = 1 /\ last.calls[i].hi = MaxInt64
        /\ Len(last.args) > 1 =>
              LET r == parseRange(last.args[2])
              IN  /\ (r[1] = 0 \/ r[1] < 1 \/ r[1] > r[2]) =>
                        /\ RepliedOnly(501)
                        /\ last.calls = <<>>
                        /\ sess.group = last.before.group
                  /\ ~(r[1] = 0 \/ r[1] < 1 \/ r[1] > r[2]) =>
                        /\ ~RepliedOnly(501)
                        /\ \A i \in CallsOf("GetArticles") :
                              last.calls[i].lo = r[1] /\ last.calls[i].hi = r[2]

\* LISTGROUP b 0-5 while group a is selected.
C8_Witness ==
    /\ Served({"handleListGroup"})
    /\ Len(last.args) = 2
    /\ last.args[2] = <<"0", "-", "5">>
    /\ ~last.before.group.nil
    /\ last.before.group.name # last.args[1]
    /\ RepliedOnly(501)

\* The code of the intro line of HEAD, BODY and ARTICLE.
ArticleIntroCode ==
    CASE last.handler = "handleHead" -> 221
      [] last.handler = "handleBody" -> 222
      [] OTHER -> 220

C10_OverListsSelectedGroup ==
    /\ dispatchCommand(<<"o", "v", "e", "r">>) = dispatchCommand(<<"x", "o", "v", "e", "r">>)
    /\ Served({"handleOver"}) =>
          /\ sess.group = last.before.group
          /\ last.before.group.nil =>
                /\ RepliedOnly(412)
                /\ last.calls = <<>>
          /\ ~last.before.group.nil =>
                /\ ~last.panic
                /\ OnlyCall("GetArticles")
                /\ last.calls[1].grp = last.before.group
                /\ <<last.calls[1].lo, last.calls[1].hi>> =
                      parseRange(IF Len(last.args) > 0 THEN last.args[1] ELSE <<>>)
                /\ last.calls[1].ret.err = Nil =>
                      Response =
                          <<StatusLine(224, "here it comes")>>
                          \o [i \in 1..Len(last.calls[1].ret.arts) |->
                                OverRow(last.calls[1].ret.arts[i])]
                          \o <<DotLine>>

\* The data lines of the block the latest request wrote.
BlockTexts ==
    {last.hlines[i].strs : i \in {j \in 2..(Len(last.hlines) - 1) :
                                     last.hlines[j].kind = "data"}}

\* C11: CAPABILITIES writes VERSION 2, READER, OVER, XOVER and LIST ACTIVE
\* NEWSGROUPS OVERVIEW.FMT inside a block closed by ".", and writes POST and
\* IHAVE exactly when AllowPost of the session's backend at that time (the
\* one a successful AUTHINFO put in place, else the server's) says true.
C11_CapabilitiesFollowAllowPost ==
    Served({"handleCap"}) =>
        /\ Len(last.hlines) >= 2
        /\ last.hlines[1].kind = "status"
        /\ last.hlines[Len(last.hlines)].kind = "dot"
        /\ \A i \in 2..(Len(last.hlines) - 1) : last.hlines[i].kind = "data"
        /\ {<<"VERSION 2">>, <<"READER">>, <<"OVER">>, <<"XOVER">>,
            <<"LIST ACTIVE NEWSGROUPS OVERVIEW.FMT">>} \subseteq BlockTexts
        /\ OnlyCall("AllowPost")
        /\ last.calls[1].be = sess.backend
        /\ <<"POST">> \in BlockTexts <=> last.calls[1].ret.flag
        /\ <<"IHAVE">> \in BlockTexts <=> last.calls[1].ret.flag

\* CAPABILITIES after AUTHINFO swapped the backend, which forbids posting.
C11_Witness ==
    /\ Served({"handleCap"})
    /\ last.before.backend = UserBackend
    /\ ~last.calls[1].ret.flag
    /\ <<"POST">> \notin BlockTexts

\* The places in the latest request's log where a line with the code was
\* written.
WrotesOf(code) == {i \in CallsOf("PrintfLine") : last.calls[i].line.code = code}

\* The latest request asked AllowPost of the session's backend first.
AskedAllowPost ==
    /\ Len(last.calls) >= 1
    /\ last.calls[1].op = "AllowPost"
    /\ last.calls[1].be = last.before.backend

\* C12: POST is answered 440 when AllowPost is false, with no "340 Go ahead"
\* and no Post call; otherwise "340 Go ahead" is written before anything is
\* read, Post is called at most once, "240 article received OK" is written
\* only after Post returned success, and an error of Post is surfaced with
\* no 240.
C12_PostOrdering ==
    Served({"handlePost"}) =>
        /\ AskedAllowPost
        /\ ~last.calls[1].ret.flag =>
              /\ RepliedOnly(440)
              /\ WrotesOf(340) = {}
              /\ CallsOf("Post") = {}
        /\ last.calls[1].ret.flag =>
              /\ WrotesOf(340) = {2}
              /\ last.hlines[1] = StatusLine(340, "Go ahead")
              /\ \A i \in CallsOf("ReadMIMEHeader") : i > 2
              /\ Cardinality(CallsOf("Post")) <= 1
              /\ \A i \in WrotesOf(240) :
                    \E j \in CallsOf("Post") : j < i /\ last.calls[j].ret.err = Nil
              /\ \A j \in CallsOf("Post") :
                    last.calls[j].ret.err # Nil =>
                        /\ last.err = last.calls[j].ret.err
                        /\ WrotesOf(240) = {}
                        /\ \A k \in DOMAIN Response : Response[k].code # 240
                        /\ last.err.kind = "nntp" =>
                              Response[Len(Response)] =
                                  StatusLine(last.err.code, last.err.msg)

\* POST was invited with 340 and the backend's Post failed with 441.
C12_Witness ==
    /\ Served({"handlePost"})
    /\ WrotesOf(340) = {2}
    /\ \E j \in CallsOf("Post") : last.calls[j].ret.err = ErrPostingFailed
    /\ Response[Len(Response)].code = 441

\* C13: IHAVE msgid is answered 435 when the backend allows no posting; when
\* GetArticle(nil group, msgid) yields an article it is answered 435, with no
\* "335 send it" and no Post call; otherwise "335 send it" is written, the
\* article is read, Post is called once (if the article could be read) and
\* "235 article received OK" is written only after Post succeeded.
C13_IHaveNeverPostsAgain ==
    (Served({"handleIHave"}) /\ Len(last.args) >= 1) =>
        /\ AskedAllowPost
        /\ ~last.calls[1].ret.flag =>
              /\ RepliedOnly(435)
              /\ Len(last.calls) = 1
        /\ last.calls[1].ret.flag =>
              /\ Len(last.calls) >= 2
              /\ last.calls[2].op = "GetArticle"
              /\ last.calls[2].be = last.before.backend
              /\ last.calls[2].grp = NoGroup
              /\ last.calls[2].tok = last.args[1]
              /\ CallsOf("GetArticle") = {2}
              /\ ~last.calls[2].ret.art.nil =>
                    /\ RepliedOnly(435)
                    /\ WrotesOf(335) = {}
                    /\ CallsOf("Post") = {}
              /\ last.calls[2].ret.art.nil =>
                    /\ WrotesOf(335) = {3}
                    /\ last.hlines[1] = StatusLine(335, "send it")
                    /\ CallsOf("ReadMIMEHeader") = {4}
                    /\ last.calls[4].err = Nil => CallsOf("Post") = {5}
                    /\ last.calls[4].err # Nil => CallsOf("Post") = {}
                    /\ \A i \in WrotesOf(235) :
                          \E j \in CallsOf("Post") : j < i /\ last.calls[j].ret.err = Nil
                    /\ \A j \in CallsOf("Post") :
                          last.calls[j].ret.err # Nil =>
                              /\ WrotesOf(235) = {}
                              /\ \A k \in DOMAIN Response : Response[k].code # 235

\* IHAVE <m1> for an article the backend has.
C13_Witness ==
    /\ Served({"handleIHave"})
    /\ Len(last.calls) = 2
    /\ ~last.calls[2].ret.art.nil
    /\ RepliedOnly(435)

\* The follow-up line the latest AUTHINFO USER read, cut at its spaces.
FollowUp == last.calls[3].parts

\* The follow-up line has the shape AUTHINFO PASS <pass>.
IsPassLine(parts) ==
    /\ Len(parts) = 3
    /\ ToLower(parts[1]) = tokAuthinfo
    /\ ToLower(parts[2]) = tokPass

\* The latest request is an AUTHINFO USER name.
ServedAuthInfoUser ==
    /\ Served({"handleAuthInfo"})
    /\ Len(last.args) >= 2
    /\ ToLower(last.args[1]) = tokUser

\* C14: AUTHINFO USER name is answered "250 authenticated" at once when the
\* backend is Authorized, with no "350 Continue" and no Authenticate call;
\* otherwise 350 is written, the next line is read and Authenticate is called
\* with the user of the first line and the password of the second.  On
\* success 250 is written and the session's backend is replaced exactly when
\* a backend was returned; on failure the error is surfaced, no 250 is
\* written and the backend stays.  No other command changes the backend.
C14_AuthInfoUserPass ==
    /\ (last.ev = "request" /\ last.handler # "handleAuthInfo") =>
          sess.backend = last.before.backend
    /\ ServedAuthInfoUser =>
          /\ Len(last.calls) >= 1
          /\ last.calls[1].op = "Authorized"
          /\ last.calls[1].be = last.before.backend
          /\ last.calls[1].ret.flag =>
                /\ Response = <<StatusLine(250, "authenticated")>>
                /\ WrotesOf(350) = {}
                /\ CallsOf("Authenticate") = {}
                /\ sess.backend = last.before.backend
          /\ ~last.calls[1].ret.flag =>
                /\ WrotesOf(350) = {2}
                /\ CallsOf("ReadLine") = {3}
                /\ IsPassLine(FollowUp) => CallsOf("Authenticate") = {4}
                /\ CallsOf("Authenticate") = {} =>
                      sess.backend = last.before.backend /\ WrotesOf(250) = {}
                /\ \A j \in CallsOf("Authenticate") :
                      LET ret == last.calls[j].ret
                      IN  /\ j = 4
                          /\ last.calls[j].be = last.before.backend
                          /\ last.calls[j].tok = last.args[2]
                          /\ last.calls[j].tok2 = FollowUp[3]
                          /\ ret.err = Nil =>
                                /\ WrotesOf(250) = {5}
                                /\ Response[Len(Response)] = StatusLine(250, "authenticated")
                                /\ sess.backend = IF ret.be # NoBackend THEN ret.be
                                                  ELSE last.before.backend
                          /\ ret.err # Nil =>
                                /\ last.err = ret.err
                                /\ WrotesOf(250) = {}
                                /\ sess.backend = last.before.backend
                                /\ ret.err.kind = "nntp" =>
                                      Response[Len(Response)] =
                                          StatusLine(ret.err.code, ret.err.msg)

\* AUTHINFO USER n, then AUTHINFO PASS pw: accepted, and the backend that
\* Authenticate returned is the session's.
C14_Witness ==
    /\ ServedAuthInfoUser
    /\ last.before.backend = DefaultBackend
    /\ sess.backend = UserBackend
    /\ WrotesOf(250) = {5}

\* C15: after "350 Continue", a follow-up line that has not the shape
\* AUTHINFO PASS <pass> (another command, fewer than three tokens, the empty
\* line of a failed read) is answered 501, Authenticate is not called and
\* the session's backend is unchanged.
C15_MalformedFollowUpIs501 ==
    (ServedAuthInfoUser /\ WrotesOf(350) # {} /\ ~IsPassLine(FollowUp)) =>
        /\ ~last.panic
        /\ Response = <<StatusLine(350, "Continue"), ErrorText(ErrSyntax)>>
        /\ status = "running"
        /\ CallsOf("Authenticate") = {}
        /\ sess.backend = last.before.backend

\* The fields of the range string parseRange was called with.
RangeParts == Split(last.spec, "-")

\* The high bound parseRange is to give for an upper field.
HighOf(f) == IF ParseInt(f).ok THEN ParseInt(f).v ELSE MaxInt64

\* C16, as the specification states it: parseRange gives [0, MAX] for the
\* empty string, [0, N] for a single integer N, [N, MAX] for "N-" and for
\* "N-x" with x unparsable, [N, M] for "N-M"; an unparsable lower field
\* gives low 0 and an unparsable upper field (the single token included)
\* gives high MAX; and no other pair is ever returned.
C16_UnparsableLowIsZero ==
    last.ev = "return" =>
        <<last.low, last.high>> =
            IF last.spec = <<>> THEN <<0, MaxInt64>>
            ELSE IF Len(RangeParts) = 1 THEN <<0, HighOf(RangeParts[1])>>
            ELSE <<IF ParseInt(RangeParts[1]).ok THEN ParseInt(RangeParts[1]).v ELSE 0,
                   HighOf(RangeParts[2])>>

\* The preferred headers, in the order they are to come out.
PreferredHeaders == <<"Subject", "From", "Date", "Message-Id", "References">>

\* The place of a header name in the order of emission: the preferred five
\* first, then the others by their name.
EmissionRank(name) ==
    IF \E i \in 1..5 : PreferredHeaders[i] = name
    THEN CHOOSE i \in 1..5 : PreferredHeaders[i] = name
    ELSE 5 + (CHOOSE i \in DOMAIN SortedHeaderNames : SortedHeaderNames[i] = name)

C18_SessionsIsolated ==
    [][/\ sess'.server = sess.server
       /\ \A d \in Conns \ {last'.conn} : sess'.conns[d] = sess.conns[d]
       /\ last'.ev = "connect" =>
             sess'.conns[last'.conn] = Session(DefaultBackend, NoGroup)]_vars

\* A connection selected group b by GROUP or LISTGROUP while another one
\* holds group a and the backend its AUTHINFO brought.
C18_Witness ==
    /\ last.ev = "request"
    /\ last.handler \in {"handleGroup", "handleListGroup"}
    /\ sess.conns[last.conn].group.name = <<"b">>
    /\ sess.conns[last.conn].backend = DefaultBackend
    /\ \E d \in Conns \ {last.conn} :
          /\ status[d] = "running"
          /\ sess.conns[d].backend = UserBackend
          /\ sess.conns[d].group.name = <<"a">>

\* The Post calls that have taken their article number.
NumberedPosts == {p \in Posts : posts[p].pc \in {"numbered", "counted", "done"}}

\* The group as the backend gives it out now: the cached object, or the one
\* the next fill makes.
CurrentGroup ==
    IF cb.groups # NilGroups THEN cb.heap[cb.groups] ELSE ActiveView(cb.db)

\* C19: under every interleaving of Post calls for the same group with one
\* another and with the purge and the refill of the group cache, the Posts
\* that find the group take pairwise distinct article numbers, and when k of
\* them are through the group's High and Count have each grown by k.
C19_ConcurrentPostsLoseNoUpdate ==
    /\ \A p, q \in NumberedPosts : p # q => posts[p].num # posts[q].num
    /\ (\A p \in Posts : posts[p].pc \in {"done", "nogroup"}) =>
          LET k == Cardinality({p \in Posts : posts[p].pc = "done"})
          IN  /\ CurrentGroup.High = ActiveView(StoredNums).High + k
              /\ CurrentGroup.Count = ActiveView(StoredNums).Count + k

\* The response codes the specification lists as used.
ListedCodes ==
    {200, 201, 205, 211, 215, 220, 221, 222, 224, 231, 235, 240, 250, 335, 340,
     350, 411, 412, 420, 423, 430, 435, 440, 441, 450, 452, 480, 500, 501}

\* The built-in NNTPErrors.
BuiltinErrors ==
    {ErrNoSuchGroup, ErrNoGroupSelected, ErrInvalidMessageID, ErrInvalidArticleNumber,
     ErrNoCurrentArticle, ErrUnknownCommand, ErrSyntax, ErrPostingNotPermitted,
     ErrPostingFailed, ErrNotWanted, ErrAuthRequired, ErrAuthRejected,
     ErrNotAuthenticated}

\* The codes of the status lines of the latest event: the greeting, the
\* lines of the handler and the error line of the dispatcher.
CodesWritten == {Response[i].code : i \in {j \in DOMAIN Response : Response[j].kind = "status"}}

\* C20, as the specification states it: every status line the engine writes
\* and every built-in NNTPError has a code of the list of codes used.
C20_OnlyListedCodes ==
    /\ \A e \in BuiltinErrors : e.code \in ListedCodes
    /\ CodesWritten \subseteq ListedCodes

\* C20, amended: the codes are those of the list and 101, the code of the
\* intro line of CAPABILITIES.
C20_ListedCodesAnd101 ==
    /\ \A e \in BuiltinErrors : e.code \in ListedCodes
    /\ CodesWritten \subseteq ListedCodes \cup {101}

\* CAPABILITIES wrote its intro line "101 Capability list:".
C20_Witness ==
    /\ Served({"handleCap"})
    /\ 101 \in CodesWritten

\* The range argument of the latest LISTGROUP is of one of the forms N, N-
\* and N-M, with N >= 1 and N <= M.
RangeOfThreeFormats ==
    /\ Len(last.args) = 2
    /\ LET parts == Split(last.args[2], "-")
       IN  /\ Len(parts) \in {1, 2}
           /\ ParseInt(parts[1]).ok
           /\ ParseInt(parts[1]).v >= 1
           /\ Len(parts) = 2 =>
                 \/ parts[2] = <<>>
                 \/ /\ ParseInt(parts[2]).ok
                    /\ ParseInt(parts[1]).v <= ParseInt(parts[2]).v

\* C21: LISTGROUP group N, LISTGROUP group N- and LISTGROUP group N-M, with
\* N >= 1 and N <= M, are not answered 501: the group is looked up, and when
\* the group exists and its articles are listed the response starts with the
\* 211 line.
C21_ListGroupAcceptsThreeRangeFormats ==
    (Served({"handleListGroup"}) /\ RangeOfThreeFormats) =>
        /\ ~RepliedOnly(501)
        /\ Len(last.calls) >= 1
        /\ last.calls[1].op = "GetGroup"
        /\ (\A i \in DOMAIN last.calls : last.calls[i].ret.err = Nil) =>
              /\ Len(last.hlines) >= 1
              /\ last.hlines[1].code = 211

\* C22: no request crashes its handler: the handler returns, and the request
\* ends in a response with the loop going on, or in the close of the
\* connection.
C22_NoRequestCrashesAHandler ==
    last.ev = "request" =>
        /\ ~last.panic
        /\ status \in {"running", "closed"}
        /\ status = "running" => Response # <<>>

\* C23: a request whose handler returns an error, an NNTPError or another,
\* leaves the selected group of the session as it was before the request.
C23_ErrorLeavesSelection ==
    (last.ev = "request" /\ ~last.panic /\ last.err # Nil) =>
        sess.group = last.before.group

\* ------------------------------------- couchBackend, the cache step by step

\* The backend is up, its cache not yet filled, no call has begun.
CacheInit == BackendInit

CacheNext ==
    \/ LockedPurge
    \/ \E g \in Gets :
          \/ GetCheck(g, "GetGroup")
          \/ GetCheck(g, "ListGroups")
          \/ FillLock(g)
          \/ FillMake(g)
          \/ FillInsertBegin(g)
          \/ FillInsertEnd(g)
          \/ GetLookup(g)

CacheSpec == CacheInit /\ [][CacheNext]_vars

\* ------------------------------------------------------------- lazyOpener

\* An article has been handed out with its body not yet opened; the store
\* has one of the answers for it.
LazyInit ==
    /\ status = "running"
    /\ sess = Session(DefaultBackend, NoGroup)
    /\ last = Event("connect", <<>>, <<>>, "", Session(DefaultBackend, NoGroup),
                    Session(DefaultBackend, NoGroup), <<>>,
                    <<StatusLine(200, "Hello!")>>, <<>>, Nil, FALSE)
    /\ cb = NewCouchBackend
    /\ posts = NoPosts
    /\ gets = NoGets
    /\ \E res \in Fetches :
          lazy = Drain(res, NewLazyOpener, 0, 0, <<>>, 0, 0, Nil, FALSE)

LazyNext == \E size \in 1..MaxBuf : DrainRead(size)

LazySpec == LazyInit /\ [][LazyNext]_vars

\* The loop keeps calling Read until it has its error.
LazyLiveSpec == LazySpec /\ WF_vars(LazyNext)

\* C24: under every interleaving of GetGroup and ListGroups calls with the
\* fill and the purge of the group cache, a GetGroup for the group the store
\* has returns that group, never ErrNoSuchGroup, a ListGroups returns a list
\* that is not empty, and no call ends the program.
C24_CacheIsSynchronised ==
    \A g \in Gets :
        gets[g].pc = "done" =>
            /\ ~gets[g].ret.fatal
            /\ gets[g].ret.err = Nil
            /\ gets[g].op = "GetGroup" => gets[g].ret.group \in 1..Len(cb.heap)
            /\ gets[g].op = "ListGroups" => gets[g].ret.len > 0

\* The fetch of the body failed: the request failed, the status is not 200,
\* or reading the response body failed.
FetchFailed ==
    \/ lazy.res.err # Nil
    \/ lazy.res.code # 200
    \/ lazy.res.readErr # Nil

\* C25: after a failed fetch every Read returns an error that is not nil and
\* delivers no bytes; in particular the body of a response whose status is
\* not 200 never reaches the caller.
C25_FailedFetchIsReported ==
    (lazy.reads > 0 /\ FetchFailed) =>
        /\ lazy.err # Nil
        /\ lazy.n = 0
        /\ lazy.out = <<>>

\* C26: the loop that calls Read until Read returns an error stops, whether
\* the fetch succeeded or failed; after a fetch that succeeded it stops on
\* io.EOF with the fetched bytes delivered once and in order; the fetch is
\* made at most once, on the first Read.
C26_DrainTerminates ==
    /\ <>lazy.stopped
    /\ [](lazy.stopped /\ ~FetchFailed =>
              lazy.err = EOF /\ lazy.out = lazy.res.bytes)
    /\ [](lazy.fetches <= 1 /\ (lazy.reads > 0 => lazy.fetches = 1))

====
